---- MODULE Spec2Model ----
(***************************************************************************)
(* Model of the secure file manager's storage core:                        *)
(*   services/file_service.py     FileService (create/read/update/delete)  *)
(*   services/archive_service.py  ArchiveService (build/extract/list,      *)
(*                                the ZIP validator)                       *)
(*   services/operation_service.py OperationService.log_operation          *)
(*   services/crypto_service.py   checksum and Fernet encryption           *)
(*                                                                         *)
(* File names are sequences of one-character strings, so that the          *)
(* sanitizer, the suffix tests and the "extracted_" prefix are computed    *)
(* character by character as the Python code does.  A path is a sequence   *)
(* of components below root_storage_path.  Byte strings are values of      *)
(* three shapes: raw bytes (a text followed by `pad` zero bytes), a ZIP    *)
(* archive (its member list, run-length encoded) and a Fernet token.       *)
(***************************************************************************)
EXTENDS Integers, Sequences, FiniteSets, TLC

(***************************************************************************)
(* Settings (config.py)                                                    *)
(***************************************************************************)
max_file_size == 104857600
max_zip_size == 10485760
max_archive_files == 1000
\* thresholds written into _validate_zip_archive
max_entry_ratio == 100
max_mean_ratio == 50
\* _validate_filename: longest accepted name
max_name_len == 255
\* create_zip_archive: total source size may not exceed max_file_size * 10
archive_size_factor == 10

(***************************************************************************)
(* Bounds of the model                                                     *)
(***************************************************************************)
\* file ids handed out by the database: 1..MaxId
MaxId == 3
\* number of service calls explored from the initial state
MaxCalls == 3
\* longest of the short file names explored
MaxNameLen == 3

None == "None"
\* a NULL foreign key (file_id, directory_id): ids start at 1
NoId == 0

(***************************************************************************)
(* Characters and names                                                    *)
(***************************************************************************)
Min(S) == CHOOSE x \in S : \A y \in S : x <= y
Max(S) == CHOOSE x \in S : \A y \in S : x >= y

Digit(d) ==
    CASE d = 0 -> "0" [] d = 1 -> "1" [] d = 2 -> "2" [] d = 3 -> "3"
      [] d = 4 -> "4" [] d = 5 -> "5" [] d = 6 -> "6" [] d = 7 -> "7"
      [] d = 8 -> "8" [] d = 9 -> "9"

RECURSIVE ToChars(_)
\* str(n) for n >= 0, as the f-strings format ids
ToChars(n) ==
    IF n < 10 THEN <<Digit(n)>> ELSE ToChars(n \div 10) \o <<Digit(n % 10)>>

LowerOf ==
    [A |-> "a", B |-> "b", C |-> "c", D |-> "d", E |-> "e", F |-> "f",
     G |-> "g", H |-> "h", I |-> "i", J |-> "j", K |-> "k", L |-> "l",
     M |-> "m", N |-> "n", O |-> "o", P |-> "p", Q |-> "q", R |-> "r",
     S |-> "s", T |-> "t", U |-> "u", V |-> "v", W |-> "w", X |-> "x",
     Y |-> "y", Z |-> "z"]

LowerChar(c) == IF c \in DOMAIN LowerOf THEN LowerOf[c] ELSE c
UpperChar(c) ==
    IF \E u \in DOMAIN LowerOf : LowerOf[u] = c
    THEN CHOOSE u \in DOMAIN LowerOf : LowerOf[u] = c
    ELSE c

\* str.lower() / str.upper()
Lower(s) == [i \in 1..Len(s) |-> LowerChar(s[i])]
Upper(s) == [i \in 1..Len(s) |-> UpperChar(s[i])]

\* str.endswith / str.startswith
EndsWith(s, suf) ==
    /\ Len(s) >= Len(suf)
    /\ SubSeq(s, Len(s) - Len(suf) + 1, Len(s)) = suf
StartsWith(s, pre) ==
    /\ Len(s) >= Len(pre)
    /\ SubSeq(s, 1, Len(pre)) = pre

\* '..' in s
ContainsDotDot(s) == \E i \in 1..(Len(s) - 1) : s[i] = "." /\ s[i + 1] = "."

\* str.strip(chars): drop leading and trailing characters of the set
Strip(s, chars) ==
    LET keep == {i \in 1..Len(s) : s[i] \notin chars}
    IN  IF keep = {} THEN <<>> ELSE SubSeq(s, Min(keep), Max(keep))

\* the characters str.strip() with no argument removes
Whitespace == {" ", "\t", "\n", "\r"}

\* str.split('.')[0]
BeforeFirstDot(s) ==
    LET dots == {i \in 1..Len(s) : s[i] = "."}
    IN  IF dots = {} THEN s ELSE SubSeq(s, 1, Min(dots) - 1)

\* '<>:"|?*\\/\x00' ; the NUL character is written "NUL"
dangerous_chars == {"<", ">", ":", "\"", "|", "?", "*", "\\", "/", "NUL"}

\* the loop `for char in dangerous_chars: filename.replace(char, '_')`
ReplaceDangerous(s) ==
    [i \in 1..Len(s) |-> IF s[i] \in dangerous_chars THEN "_" ELSE s[i]]

RECURSIVE ReplaceDotDot(_)
\* filename.replace('..', '_'): non-overlapping, left to right
ReplaceDotDot(s) ==
    IF ~ContainsDotDot(s) THEN s
    ELSE LET i == Min({j \in 1..(Len(s) - 1) : s[j] = "." /\ s[j + 1] = "."})
         IN  SubSeq(s, 1, i - 1) \o <<"_">> \o ReplaceDotDot(SubSeq(s, i + 2, Len(s)))

Ok(v) == [err |-> "none", val |-> v]
Fail(kind) == [err |-> kind, val |-> None]

\* _validate_filename after the replacements: the emptiness test on
\* strip('._') and the returned filename.strip()
Sanitized(replaced) ==
    IF Strip(replaced, {".", "_"}) = <<>>
    THEN Fail("InvalidName")
    ELSE Ok(Strip(replaced, Whitespace))

\* FileService._validate_filename
_validate_filename(filename) ==
    IF Len(filename) = 0 \/ Len(filename) > max_name_len
    THEN Fail("InvalidName")
    ELSE Sanitized(ReplaceDotDot(ReplaceDangerous(filename)))

(***************************************************************************)
(* Paths                                                                   *)
(***************************************************************************)
\* FileService._get_user_storage_path: root_path / f"user_{user.id}"
_get_user_storage_path(user) == << <<"u", "s", "e", "r", "_">> \o ToChars(user) >>

\* Path.resolve() of base / name for a name without separators: an empty
\* name or "." names the directory itself
Resolve(base, name) ==
    IF name = <<>> \/ name = <<".">> THEN base ELSE base \o <<name>>

\* Path.relative_to succeeds: p is dir or lies below it
IsRelativeTo(p, dir) == Len(p) >= Len(dir) /\ SubSeq(p, 1, Len(dir)) = dir

\* _get_safe_file_path once the name is sanitized (s): join, resolve and
\* the relative_to test
SafePath(user_storage, s) ==
    IF s.err # "none" THEN s
    ELSE IF IsRelativeTo(Resolve(user_storage, s.val), user_storage)
         THEN Ok(Resolve(user_storage, s.val))
         ELSE Fail("PathTraversal")

\* FileService._get_safe_file_path
_get_safe_file_path(user, filename) ==
    SafePath(_get_user_storage_path(user), _validate_filename(filename))

(***************************************************************************)
(* Byte strings                                                            *)
(***************************************************************************)
\* `text` followed by `pad` zero bytes
Raw(text, pad) == [kind |-> "raw", text |-> text, pad |-> pad]

\* a member of an archive as zipfile.ZipInfo reports it, with the payload
\* that decompressing the member yields
ZipInfo(filename, file_size, compress_size, data) ==
    [filename |-> filename, file_size |-> file_size,
     compress_size |-> compress_size, data |-> data]

\* the payload of a member whose stored bytes do not inflate to what its
\* header declares: ZipFile.read raises BadZipFile
Unreadable == [kind |-> "unreadable"]

\* an archive whose central directory lists, for each run r in order,
\* r.n copies of the member r.info
Zip(runs) == [kind |-> "zip", runs |-> runs]

\* CryptoService.encrypt_data: Fernet(key).encrypt(data)
encrypt_data(data, key) == [kind |-> "fernet", key |-> key, plain |-> data]

\* zipfile.ZipFile(...) raises BadZipFile for bytes that are no archive
IsZip(b) == b.kind = "zip"
\* zipfile.ZipFile(...).infolist(), as runs: the list holds, for each run r
\* in order, r.n equal members r.info
infolist(b) == b.runs

\* ZipInfo.is_dir(): the name ends with "/"
is_dir(info) == EndsWith(info.filename, <<"/">>)

RECURSIVE ZipLen(_)
\* bytes of the archive file: per member a local header (30 + name), the
\* compressed payload and a central directory record (46 + name), then the
\* 22-byte end record
ZipLen(runs) ==
    IF runs = <<>> THEN 22
    ELSE LET r == Head(runs)
         IN  r.n * (76 + 2 * Len(r.info.filename) + r.info.compress_size)
             + ZipLen(Tail(runs))

\* length of a Fernet token over n plaintext bytes: base64 of version,
\* timestamp, IV, AES-CBC ciphertext with PKCS7 padding, and HMAC
FernetLen(n) == 4 * ((57 + 16 * (n \div 16 + 1) + 2) \div 3)

RECURSIVE BytesLen(_)
\* len(b)
BytesLen(b) ==
    CASE b.kind = "raw" -> Len(b.text) + b.pad
      [] b.kind = "zip" -> ZipLen(b.runs)
      [] b.kind = "fernet" -> FernetLen(BytesLen(b.plain))

\* compressed size zipfile records for a member written with ZIP_DEFLATED:
\* literal text costs its length, a run of zero bytes about 1/1032 of it,
\* plus the 2-byte end of block; compressed input does not shrink
DeflateSize(b) ==
    IF b.kind = "raw"
    THEN Len(b.text) + 2 + (b.pad + 1031) \div 1032
    ELSE BytesLen(b) + 5

\* CryptoService.calculate_file_checksum: SHA-256 of the file's bytes,
\* taken as collision-free
Sha256(b) == <<"sha256", b>>

\* the archive zipfile.ZipFile(path, 'w', ZIP_DEFLATED).writestr(name, content)
\* produces for the members given in order
WriteZip(members) ==
    Zip([i \in 1..Len(members) |->
            [info |-> ZipInfo(members[i].name, BytesLen(members[i].content),
                              DeflateSize(members[i].content),
                              members[i].content),
             n |-> 1]])

(***************************************************************************)
(* Archive validator                                                       *)
(***************************************************************************)
RECURSIVE GCD(_, _)
GCD(a, b) == IF b = 0 THEN a ELSE GCD(b, a % b)

\* exact quotients: file_size / compress_size and their sums
Ratio(num, den) == LET g == GCD(num, den) IN [num |-> num \div g, den |-> den \div g]
RatioAdd(p, q) ==
    LET g == GCD(p.den, q.den)
    IN  Ratio(p.num * (q.den \div g) + q.num * (p.den \div g), (p.den \div g) * q.den)
\* p > k for an integer k: the whole part of p exceeds k, or equals it
\* with a remainder
RatioGreater(p, k) ==
    \/ p.num \div p.den > k
    \/ p.num \div p.den = k /\ p.num % p.den > 0

\* the per-entry checks without the check of the name
EntryError_NoNameCheck(info) ==
    IF info.file_size > max_file_size THEN "EntryTooLarge"
    ELSE IF /\ info.compress_size > 0
            /\ RatioGreater(Ratio(info.file_size, info.compress_size), max_entry_ratio)
         THEN "SuspiciousCompressionRatio"
    ELSE "none"

\* the ratio check made with >= in place of >
EntryError_RatioInclusive(info) ==
    IF info.file_size > max_file_size THEN "EntryTooLarge"
    ELSE IF /\ info.compress_size > 0
            /\ info.file_size >= max_entry_ratio * info.compress_size
         THEN "SuspiciousCompressionRatio"
    ELSE IF ContainsDotDot(info.filename) \/ StartsWith(info.filename, <<"/">>)
         THEN "DangerousPath"
    ELSE "none"

\* the checks of one loop iteration of _validate_zip_archive, in the
\* order the loop makes them
EntryError(info) ==
    IF info.file_size > max_file_size THEN "EntryTooLarge"
    ELSE IF /\ info.compress_size > 0
            /\ RatioGreater(Ratio(info.file_size, info.compress_size), max_entry_ratio)
         THEN "SuspiciousCompressionRatio"
    ELSE IF ContainsDotDot(info.filename) \/ StartsWith(info.filename, <<"/">>)
         THEN "DangerousPath"
    ELSE "none"

\* file_count counts a run of equal members once
Accumulate_CountsRuns(acc, info, k) ==
    [acc EXCEPT
        !.file_count = @ + 1,
        !.total = @ + k * info.file_size,
        !.ratio_sum = IF info.compress_size > 0
                      THEN RatioAdd(@, Ratio(k * info.file_size, info.compress_size))
                      ELSE @,
        !.ratio_n = IF info.compress_size > 0 THEN @ + k ELSE @]

\* one pass of the loop body over k equal members: file_count,
\* total_uncompressed_size and compression_ratios (kept as sum and number)
Accumulate(acc, info, k) ==
    [acc EXCEPT
        !.file_count = @ + k,
        !.total = @ + k * info.file_size,
        !.ratio_sum = IF info.compress_size > 0
                      THEN RatioAdd(@, Ratio(k * info.file_size, info.compress_size))
                      ELSE @,
        !.ratio_n = IF info.compress_size > 0 THEN @ + k ELSE @]

RECURSIVE ValidateLoop(_, _, _)
RECURSIVE ValidateRun(_, _, _, _)
\* the for loop of _validate_zip_archive from run i on.  The iterations
\* over the equal members of a run are taken together: all are skipped
\* (directories), the first one raises (e), or each adds the same amounts.
ValidateLoop(z, i, acc) ==
    IF i > Len(z) THEN acc
    ELSE IF is_dir(z[i].info) \/ z[i].n = 0 THEN ValidateLoop(z, i + 1, acc)
    ELSE ValidateRun(z, i, acc, EntryError(z[i].info))

ValidateRun(z, i, acc, e) ==
    IF e # "none"
    THEN [Accumulate(acc, z[i].info, 1) EXCEPT !.err = e]
    ELSE ValidateLoop(z, i + 1, Accumulate(acc, z[i].info, z[i].n))

\* the checks on the totals without the mean ratio
Verdict_NoMeanCheck(acc) ==
    IF acc.err # "none" THEN acc.err
    ELSE IF acc.file_count > max_archive_files THEN "ArchiveTooManyFiles"
    ELSE IF acc.total > max_zip_size THEN "ArchiveTooLarge"
    ELSE "none"

\* _validate_zip_archive after the loop: the checks on the totals
Verdict(acc) ==
    IF acc.err # "none" THEN acc.err
    ELSE IF acc.file_count > max_archive_files THEN "ArchiveTooManyFiles"
    ELSE IF acc.total > max_zip_size THEN "ArchiveTooLarge"
    ELSE IF /\ acc.ratio_n > 0
            /\ RatioGreater(acc.ratio_sum, max_mean_ratio * acc.ratio_n)
         THEN "SuspiciousCompressionRatio"
    ELSE "none"

\* ArchiveService._validate_zip_archive: "none" or the kind of the error
\* it raises
_validate_zip_archive(z) ==
    Verdict(ValidateLoop(z, 1, [file_count |-> 0, total |-> 0,
                                ratio_sum |-> Ratio(0, 1), ratio_n |-> 0,
                                err |-> "none"]))

reserved_names ==
    { <<"C", "O", "N">>, <<"P", "R", "N">>, <<"A", "U", "X">>, <<"N", "U", "L">> }
    \cup { <<"C", "O", "M", Digit(d)>> : d \in 1..9 }
    \cup { <<"L", "P", "T", Digit(d)>> : d \in 1..9 }

\* _validate_zip_entry once the member's name is sanitized (s)
EntryNameError(s, extract_dir) ==
    IF s.err # "none" THEN s.err
    ELSE IF ~IsRelativeTo(Resolve(extract_dir, s.val), extract_dir)
         THEN "PathTraversal"
    ELSE IF BeforeFirstDot(Upper(s.val)) \in reserved_names
         THEN "ReservedName"
    ELSE "none"

\* ArchiveService._validate_zip_entry
_validate_zip_entry(info, extract_dir) ==
    EntryNameError(_validate_filename(info.filename), extract_dir)

(***************************************************************************)
(* Format validation (JsonXmlService.validate_file_format)                 *)
(***************************************************************************)
\* the texts json.loads / ET.fromstring accept, among the texts of the model
WellFormedJson == {"{}", "[1]"}
WellFormedXml == {"<a/>"}

json_suffix == <<".", "j", "s", "o", "n">>
xml_suffix == <<".", "x", "m", "l">>
zip_suffix == <<".", "z", "i", "p">>

validate_file_format(filename, content) ==
    IF EndsWith(Lower(filename), json_suffix)
    THEN content.kind = "raw" /\ content.pad = 0 /\ content.text \in WellFormedJson
    ELSE IF EndsWith(Lower(filename), xml_suffix)
    THEN content.kind = "raw" /\ content.pad = 0 /\ content.text \in WellFormedXml
    ELSE TRUE

(***************************************************************************)
(* The store: database rows, the file system and the audit log.            *)
(* A store st has                                                          *)
(*   files       the rows of table files                                   *)
(*   next_id     the next primary key of table files                       *)
(*   disk        the regular files below root_storage_path: path -> bytes  *)
(*   operations  the rows of table operations, in insertion order          *)
(* Every service method is an operator from a store to a result            *)
(* [st, err, ret]: the store it leaves, "none" or the kind of the          *)
(* exception it raises, and what it returns.  A method whose code binds a  *)
(* value and goes on is written as an operator that computes the value     *)
(* and one that takes it as a parameter and goes on.                       *)
(***************************************************************************)
Result(st, err, ret) == [st |-> st, err |-> err, ret |-> ret]

\* Path.write_bytes / Path.unlink on regular files
WriteBytes(disk, p, b) == [q \in DOMAIN disk \cup {p} |-> IF q = p THEN b ELSE disk[q]]
Unlink(disk, p) == [q \in DOMAIN disk \ {p} |-> disk[q]]
\* shutil.rmtree(dir): everything strictly below dir goes
RemoveTree(disk, dir) ==
    [q \in {x \in DOMAIN disk : ~(Len(x) > Len(dir) /\ IsRelativeTo(x, dir))} |-> disk[q]]

\* the directories that exist between calls: each user's storage directory
\* (made by _get_user_storage_path before any path below it is used)
IsDirectory(p) == Len(p) = 1

\* OperationService.log_operation
log_operation(st, user, operation_type, file_id, success, error_message) ==
    [st EXCEPT !.operations =
        Append(@, [operation_type |-> operation_type, success |-> success,
                   user_id |-> user, file_id |-> file_id,
                   error_message |-> error_message])]

\* the except branch re-raises without an audit entry
LogFailure_Silent(st, user, operation_type, err, ret) == Result(st, err, ret)

\* the except branch shared by the service methods: one failure entry
\* without a file, then the exception goes on to the caller
LogFailure(st, user, operation_type, err, ret) ==
    Result(log_operation(st, user, operation_type, NoId, FALSE, err), err, ret)

\* create_file: the File row built after the bytes are on disk (disk2)
NewFile(st, user, filename, content, encrypt, directory_id, file_path, disk2) ==
    [id |-> st.next_id,
     filename |-> file_path[Len(file_path)],
     original_name |-> filename,
     size |-> BytesLen(content),
     checksum |-> Sha256(disk2[file_path]),
     storage_path |-> file_path,
     is_encrypted |-> encrypt,
     owner_id |-> user,
     directory_id |-> directory_id]

\* the row is committed but the bytes written are lost
InsertFile_WriteLost(st, disk2, file_obj) ==
    Result([st EXCEPT !.files = @ \cup {file_obj}, !.next_id = @ + 1],
           "none", file_obj)

\* create_file: session.add(file_obj), commit, refresh
InsertFile(st, disk2, file_obj) ==
    Result([st EXCEPT !.disk = disk2, !.files = @ \cup {file_obj}, !.next_id = @ + 1],
           "none", file_obj)

\* create_file: the rows the duplicate query selects
SameName(st, user, filename, directory_id) ==
    {f \in st.files : /\ f.original_name = filename
                      /\ f.owner_id = user
                      /\ f.directory_id = directory_id}

\* create_file without the duplicate query
CreateAt_NoDuplicateQuery(st, user, filename, content, encrypt, directory_id, key, path) ==
    IF path.err # "none"
    THEN Result(st, path.err, None)
    ELSE IF IsDirectory(path.val)
    THEN Result(st, "IsADirectoryError", None)
    ELSE InsertFile(st,
            WriteBytes(st.disk, path.val,
                       IF encrypt THEN encrypt_data(content, key) ELSE content),
            NewFile(st, user, filename, content, encrypt, directory_id, path.val,
                    WriteBytes(st.disk, path.val,
                               IF encrypt THEN encrypt_data(content, key)
                               ELSE content)))

\* create_file from the duplicate query on, for the resolved path
CreateAt(st, user, filename, content, encrypt, directory_id, key, path) ==
    IF path.err # "none"
    THEN Result(st, path.err, None)
    ELSE IF Cardinality(SameName(st, user, filename, directory_id)) > 1
    THEN Result(st, "MultipleResultsFound", None)
    ELSE IF SameName(st, user, filename, directory_id) # {}
    THEN Result(st, "DuplicateName", None)
    ELSE IF IsDirectory(path.val)
    THEN Result(st, "IsADirectoryError", None)
    ELSE InsertFile(st,
            WriteBytes(st.disk, path.val,
                       IF encrypt THEN encrypt_data(content, key) ELSE content),
            NewFile(st, user, filename, content, encrypt, directory_id, path.val,
                    WriteBytes(st.disk, path.val,
                               IF encrypt THEN encrypt_data(content, key)
                               ELSE content)))

\* the try block of FileService.create_file up to the commit of the row
CreateBody(st, user, filename, content, encrypt, directory_id, key) ==
    IF BytesLen(content) > max_file_size
    THEN Result(st, "SizeLimitExceeded", None)
    ELSE IF ~validate_file_format(filename, content)
    THEN Result(st, "InvalidFormat", None)
    ELSE CreateAt(st, user, filename, content, encrypt, directory_id, key,
                  _get_safe_file_path(user, filename))

\* create_file: the audit entry of the outcome r
CreateAudit(user, r) ==
    IF r.err = "none"
    THEN Result(log_operation(r.st, user, "CREATE", r.ret.id, TRUE, None), "none", r.ret)
    ELSE LogFailure(r.st, user, "CREATE", r.err, None)

\* FileService.create_file
create_file(st, user, filename, content, encrypt, directory_id, key) ==
    CreateAudit(user, CreateBody(st, user, filename, content, encrypt,
                                 directory_id, key))

\* the query selects by id alone
FindFile_AnyOwner(st, user, file_id) == {f \in st.files : f.id = file_id}

\* the rows select(File).where(id == file_id, owner_id == user.id) finds
FindFile(st, user, file_id) == {f \in st.files : f.id = file_id /\ f.owner_id = user}

\* read_file for the row found
ReadRow(st, file_obj) ==
    IF file_obj.storage_path \notin DOMAIN st.disk
    THEN Result(st, "NotFound", None)
    ELSE IF file_obj.is_encrypted
    THEN Result(st, "NotSupported", None)
    ELSE Result(st, "none",
                [file |-> file_obj, content |-> st.disk[file_obj.storage_path]])

\* the try block of FileService.read_file before the audit entry
ReadBody(st, user, file_id) ==
    IF FindFile(st, user, file_id) = {}
    THEN Result(st, "NotFound", None)
    ELSE ReadRow(st, CHOOSE f \in FindFile(st, user, file_id) : TRUE)

\* read_file: the audit entry of the outcome r
ReadAudit(user, r) ==
    IF r.err = "none"
    THEN Result(log_operation(r.st, user, "READ", r.ret.file.id, TRUE, None),
                "none", r.ret)
    ELSE LogFailure(r.st, user, "READ", r.err, None)

\* FileService.read_file
read_file(st, user, file_id) == ReadAudit(user, ReadBody(st, user, file_id))

\* update_file: the row with size and checksum recomputed from the file
\* as written (disk2)
UpdatedFile(file_obj, new_content, disk2) ==
    [file_obj EXCEPT !.size = BytesLen(new_content),
                     !.checksum = Sha256(disk2[file_obj.storage_path])]

\* update_file for the row found
UpdateRow(st, file_obj, new_content) ==
    IF BytesLen(new_content) > max_file_size
    THEN Result(st, "SizeLimitExceeded", None)
    ELSE IF file_obj.is_encrypted
    THEN Result(st, "NotSupported", None)
    ELSE Result([st EXCEPT
                    !.disk = WriteBytes(@, file_obj.storage_path, new_content),
                    !.files = (@ \ {file_obj}) \cup
                        {UpdatedFile(file_obj, new_content,
                            WriteBytes(st.disk, file_obj.storage_path, new_content))}],
                "none",
                UpdatedFile(file_obj, new_content,
                            WriteBytes(st.disk, file_obj.storage_path, new_content)))

\* the try block of FileService.update_file up to the commit
UpdateBody(st, user, file_id, new_content) ==
    IF FindFile(st, user, file_id) = {}
    THEN Result(st, "NotFound", None)
    ELSE UpdateRow(st, CHOOSE f \in FindFile(st, user, file_id) : TRUE, new_content)

\* update_file: the audit entry of the outcome r
UpdateAudit(user, r) ==
    IF r.err = "none"
    THEN Result(log_operation(r.st, user, "UPDATE", r.ret.id, TRUE, None), "none", r.ret)
    ELSE LogFailure(r.st, user, "UPDATE", r.err, None)

\* FileService.update_file
update_file(st, user, file_id, new_content) ==
    UpdateAudit(user, UpdateBody(st, user, file_id, new_content))

\* delete_file unlinks without asking whether the file exists
DeleteRow_NeedsBytes(st, file_obj) ==
    IF file_obj.storage_path \notin DOMAIN st.disk
    THEN Result(st, "FileNotFoundError", None)
    ELSE Result([st EXCEPT
                    !.disk = Unlink(@, file_obj.storage_path),
                    !.files = @ \ {file_obj},
                    !.operations = SelectSeq(@, LAMBDA o : o.file_id # file_obj.id)],
                "none", TRUE)

\* delete_file for the row found: unlink if the file exists, then
\* session.delete(file_obj); File.operations cascades "all, delete-orphan",
\* so the audit rows that reference the file go with it
DeleteRow(st, file_obj) ==
    Result([st EXCEPT
               !.disk = IF file_obj.storage_path \in DOMAIN @
                        THEN Unlink(@, file_obj.storage_path) ELSE @,
               !.files = @ \ {file_obj},
               !.operations = SelectSeq(@, LAMBDA o : o.file_id # file_obj.id)],
           "none", TRUE)

\* the try block of FileService.delete_file up to the commit
DeleteBody(st, user, file_id) ==
    IF FindFile(st, user, file_id) = {}
    THEN Result(st, "NotFound", None)
    ELSE DeleteRow(st, CHOOSE f \in FindFile(st, user, file_id) : TRUE)

\* delete_file: the audit entry of the outcome r
DeleteAudit(user, r) ==
    IF r.err = "none"
    THEN Result(log_operation(r.st, user, "DELETE", NoId, TRUE, None), "none", TRUE)
    ELSE LogFailure(r.st, user, "DELETE", r.err, None)

\* FileService.delete_file
delete_file(st, user, file_id) == DeleteAudit(user, DeleteBody(st, user, file_id))

(***************************************************************************)
(* ArchiveService                                                          *)
(***************************************************************************)
RECURSIVE ReadSources(_, _, _, _, _)
RECURSIVE ReadSource(_, _, _, _, _)
\* the loop of create_zip_archive over file_ids from position i on: acc
\* holds files_to_archive (members) and total_size (total)
ReadSources(st, user, file_ids, i, acc) ==
    IF i > Len(file_ids) THEN Result(st, "none", acc.members)
    ELSE ReadSource(user, file_ids, i, acc, read_file(st, user, file_ids[i]))

\* one iteration, r being what read_file gave
ReadSource(user, file_ids, i, acc, r) ==
    IF r.err # "none" THEN Result(r.st, r.err, None)
    ELSE IF acc.total + BytesLen(r.ret.content) > max_file_size * archive_size_factor
    THEN Result(r.st, "SizeLimitExceeded", None)
    ELSE ReadSources(r.st, user, file_ids, i + 1,
                     [members |-> Append(acc.members,
                                         [name |-> r.ret.file.original_name,
                                          content |-> r.ret.content]),
                      total |-> acc.total + BytesLen(r.ret.content)])

\* create_zip_archive after create_file returned c: the audit entry of the
\* archive, then archive_path.unlink()
BuildRegistered(user, archive_path, c) ==
    IF c.err # "none" THEN c
    ELSE Result([log_operation(c.st, user, "ARCHIVE_CREATE", c.ret.id, TRUE, None)
                    EXCEPT !.disk = Unlink(@, archive_path)],
                "none", c.ret)

\* create_zip_archive after the sources were read (src): the archive is
\* written at archive_path, read back and handed to create_file
BuildFrom(user, name, archive_path, src) ==
    IF src.err # "none" THEN src
    ELSE IF IsDirectory(archive_path)
    THEN Result(src.st, "IsADirectoryError", None)
    ELSE BuildRegistered(user, archive_path,
            create_file([src.st EXCEPT !.disk =
                            WriteBytes(@, archive_path, WriteZip(src.ret))],
                        user, name, WriteZip(src.ret), FALSE, NoId, None))

\* create_zip_archive for the resolved archive_path
BuildAt(st, user, file_ids, name, archive_path) ==
    IF archive_path.err # "none" THEN Result(st, archive_path.err, None)
    ELSE BuildFrom(user, name, archive_path.val,
                   ReadSources(st, user, file_ids, 1, [members |-> <<>>, total |-> 0]))

\* archive_name with '.zip' appended unless it ends with it
ArchiveFileName(archive_name) ==
    IF EndsWith(archive_name, zip_suffix) THEN archive_name
    ELSE archive_name \o zip_suffix

\* the try block of ArchiveService.create_zip_archive
BuildBody(st, user, file_ids, archive_name) ==
    BuildAt(st, user, file_ids, ArchiveFileName(archive_name),
            _get_safe_file_path(user, ArchiveFileName(archive_name)))

\* the except branch re-raises without an audit entry
BuildAudit_Silent(user, r) == r

\* create_zip_archive: the except branch
BuildAudit(user, r) ==
    IF r.err = "none" THEN r
    ELSE LogFailure(r.st, user, "ARCHIVE_CREATE", r.err, None)

\* ArchiveService.create_zip_archive
create_zip_archive(st, user, file_ids, archive_name) ==
    BuildAudit(user, BuildBody(st, user, file_ids, archive_name))

extracted_prefix == <<"e", "x", "t", "r", "a", "c", "t", "e", "d", "_">>

\* what an extraction has done so far: the files it registered, the steps
\* it took in order ("validate": _validate_zip_archive ran over the member
\* list; "decompress": zipf.read of a member; "register": create_file
\* returned its row), the validator's verdict and the member list it read
NoProgress ==
    [extracted_files |-> <<>>, trace |-> <<>>, verdict |-> "unchecked", members |-> <<>>]
Step(acc, what) == [acc EXCEPT !.trace = Append(@, what)]

RECURSIVE ExtractLoop(_, _, _, _, _, _)
RECURSIVE ExtractEntry(_, _, _, _, _, _, _)
RECURSIVE ExtractCreated(_, _, _, _, _, _)
\* the for loop of _safe_zip_extraction from copy pos.k of run pos.i on.
\* A run of directory members is skipped as a whole.
ExtractLoop(st, user, z, extract_dir, pos, acc) ==
    IF pos.i > Len(z) THEN Result(st, "none", acc)
    ELSE IF is_dir(z[pos.i].info) \/ pos.k > z[pos.i].n
    THEN ExtractLoop(st, user, z, extract_dir, [i |-> pos.i + 1, k |-> 1], acc)
    ELSE ExtractEntry(st, user, z, extract_dir, pos, acc,
                      _validate_zip_entry(z[pos.i].info, extract_dir))

\* one iteration after _validate_zip_entry gave v: zipf.read(file_info),
\* then create_file
ExtractEntry(st, user, z, extract_dir, pos, acc, v) ==
    IF v # "none" THEN Result(st, v, acc)
    ELSE IF z[pos.i].info.data = Unreadable
    THEN Result(st, "CorruptArchive", Step(acc, "decompress"))
    ELSE ExtractCreated(user, z, extract_dir, pos, Step(acc, "decompress"),
            create_file(st, user, extracted_prefix \o z[pos.i].info.filename,
                        z[pos.i].info.data, FALSE, NoId, None))

\* one iteration after create_file returned c
ExtractCreated(user, z, extract_dir, pos, acc, c) ==
    IF c.err # "none" THEN Result(c.st, c.err, acc)
    ELSE ExtractLoop(c.st, user, z, extract_dir, [i |-> pos.i, k |-> pos.k + 1],
                     [Step(acc, "register") EXCEPT
                        !.extracted_files = Append(@, c.ret)])

\* the loop runs whatever the verdict
ExtractValidated_Unconditional(st, user, z, extract_dir, verdict) ==
    ExtractLoop(st, user, z, extract_dir, [i |-> 1, k |-> 1],
                [Step(NoProgress, "validate") EXCEPT
                    !.verdict = verdict, !.members = z])

\* _safe_zip_extraction after _validate_zip_archive gave verdict
ExtractValidated(st, user, z, extract_dir, verdict) ==
    IF verdict # "none"
    THEN Result(st, verdict, [Step(NoProgress, "validate") EXCEPT
                                !.verdict = verdict, !.members = z])
    ELSE ExtractLoop(st, user, z, extract_dir, [i |-> 1, k |-> 1],
                     [Step(NoProgress, "validate") EXCEPT
                        !.verdict = verdict, !.members = z])

\* ArchiveService._safe_zip_extraction on the archive bytes at archive_path
_safe_zip_extraction(st, user, archive_path, extract_dir) ==
    IF ~IsZip(st.disk[archive_path])
    THEN Result(st, "CorruptArchive", NoProgress)
    ELSE ExtractValidated(st, user, infolist(st.disk[archive_path]), extract_dir,
                          _validate_zip_archive(infolist(st.disk[archive_path])))

temp_extract_name(id) ==
    <<"t", "e", "m", "p", "_", "e", "x", "t", "r", "a", "c", "t", "_">> \o ToChars(id)
archive_zip == <<"a", "r", "c", "h", "i", "v", "e", ".", "z", "i", "p">>

\* the finally block leaves temp_dir in place
ExtractAudit_KeepsTemp(user, archive_id, temp_dir, x) ==
    Result(IF x.err = "none"
           THEN log_operation(x.st, user, "ARCHIVE_EXTRACT", archive_id, TRUE, None)
           ELSE log_operation(x.st, user, "ARCHIVE_EXTRACT", NoId, FALSE, x.err),
           x.err, x.ret)

\* a failed extraction takes back the rows it registered
ExtractAudit_RollsBack(user, archive_id, temp_dir, x) ==
    Result([(IF x.err = "none"
             THEN log_operation(x.st, user, "ARCHIVE_EXTRACT", archive_id, TRUE, None)
             ELSE log_operation(
                    [x.st EXCEPT !.files =
                        @ \ {x.ret.extracted_files[i] :
                                i \in 1..Len(x.ret.extracted_files)}],
                    user, "ARCHIVE_EXTRACT", NoId, FALSE, x.err))
               EXCEPT !.disk = RemoveTree(@, temp_dir)],
           x.err, x.ret)

\* extract_zip_archive after _safe_zip_extraction returned x: the audit
\* entry, then the finally block removes temp_dir
ExtractAudit(user, archive_id, temp_dir, x) ==
    Result([(IF x.err = "none"
             THEN log_operation(x.st, user, "ARCHIVE_EXTRACT", archive_id, TRUE, None)
             ELSE log_operation(x.st, user, "ARCHIVE_EXTRACT", NoId, FALSE, x.err))
               EXCEPT !.disk = RemoveTree(@, temp_dir)],
           x.err, x.ret)

\* extract_zip_archive after read_file returned r, for temp_dir
ExtractInto(user, r, temp_dir) ==
    IF temp_dir \in DOMAIN r.st.disk
    THEN \* mkdir(exist_ok=True) meets a regular file; rmtree in the finally
         \* block ignores the error and leaves the file
         LogFailure(r.st, user, "ARCHIVE_EXTRACT", "FileExistsError", NoProgress)
    ELSE ExtractAudit(user, r.ret.file.id, temp_dir,
            _safe_zip_extraction(
                [r.st EXCEPT !.disk = WriteBytes(@, temp_dir \o <<archive_zip>>,
                                                 r.ret.content)],
                user, temp_dir \o <<archive_zip>>, temp_dir))

\* extract_zip_archive after read_file returned r
ExtractRead(user, r) ==
    IF r.err # "none"
    THEN LogFailure(r.st, user, "ARCHIVE_EXTRACT", r.err, NoProgress)
    ELSE ExtractInto(user, r,
            _get_user_storage_path(user) \o <<temp_extract_name(r.ret.file.id)>>)

\* ArchiveService.extract_zip_archive; ret carries the files registered by
\* the call (what it returns on success), its trace and the verdict
extract_zip_archive(st, user, archive_file_id) ==
    ExtractRead(user, read_file(st, user, archive_file_id))

temp_list_name(id) ==
    <<"t", "e", "m", "p", "_", "l", "i", "s", "t", "_">> \o ToChars(id) \o zip_suffix

\* the dictionaries list_archive_contents collects, one per run of equal
\* members (n of them)
ContentsOf(z) ==
    [i \in 1..Len(SelectSeq(z, LAMBDA r : ~is_dir(r.info))) |->
        [filename |-> SelectSeq(z, LAMBDA r : ~is_dir(r.info))[i].info.filename,
         size |-> SelectSeq(z, LAMBDA r : ~is_dir(r.info))[i].info.file_size,
         compressed_size |->
            SelectSeq(z, LAMBDA r : ~is_dir(r.info))[i].info.compress_size,
         n |-> SelectSeq(z, LAMBDA r : ~is_dir(r.info))[i].n]]

\* list_archive_contents after read_file returned r: the archive is
\* written to temp_archive, parsed, and temp_archive is unlinked
ListRead(user, r, temp_archive) ==
    IF ~IsZip(r.ret.content)
    THEN Result([r.st EXCEPT !.disk =
                    Unlink(WriteBytes(@, temp_archive, r.ret.content), temp_archive)],
                "CorruptArchive", None)
    ELSE Result([r.st EXCEPT !.disk =
                    Unlink(WriteBytes(@, temp_archive, r.ret.content), temp_archive)],
                "none", ContentsOf(infolist(r.ret.content)))

ListFrom(user, r) ==
    IF r.err # "none" THEN Result(r.st, r.err, None)
    ELSE ListRead(user, r,
            _get_user_storage_path(user) \o <<temp_list_name(r.ret.file.id)>>)

\* ArchiveService.list_archive_contents
list_archive_contents(st, user, archive_file_id) ==
    ListFrom(user, read_file(st, user, archive_file_id))

(***************************************************************************)
(* State                                                                   *)
(***************************************************************************)
VARIABLES
    files,       \* rows of table files
    next_id,     \* next primary key of table files
    disk,        \* regular files below root_storage_path: path -> bytes
    operations,  \* rows of table operations (the audit log), oldest first
    last,        \* the latest call: its number, name, arguments, outcome, result
    tasks,       \* the calls that run as asyncio tasks, each with its position
    _lock,       \* FileService._lock: the task that holds it, or NoId
    directories  \* rows of table directories

vars == <<files, next_id, disk, operations, last, tasks, _lock, directories>>

Store == [files |-> files, next_id |-> next_id, disk |-> disk,
          operations |-> operations]

\* the call op(args) by user ended as r
Returns(op, user, args, r) ==
    /\ files' = r.st.files
    /\ next_id' = r.st.next_id
    /\ disk' = r.st.disk
    /\ operations' = r.st.operations
    /\ last' = [n |-> last.n + 1, op |-> op, user |-> user, args |-> args,
                err |-> r.err, ret |-> r.ret]
    /\ UNCHANGED <<tasks, _lock, directories>>

\* the calls are made one after the other: no task is in flight; no
\* directory has been made
NoTasks == tasks = <<>> /\ _lock = NoId /\ directories = {}

(***************************************************************************)
(* Inputs                                                                  *)
(***************************************************************************)
Users == {1, 2}
\* the users whose archive calls are explored
Archivists == {1}

hello == Raw("hello", 0)
bye == Raw("bye", 0)
\* one byte more than create accepts
Oversize == Raw("", max_file_size + 1)
\* the archive zipfile writes for a member "a" holding "hello"
GoodZip == Zip(<<[info |-> ZipInfo(<<"a">>, 5, 7, hello), n |-> 1]>>)
\* a member that declares 101 bytes for 1 compressed byte
BombZip == Zip(<<[info |-> ZipInfo(<<"a">>, 101, 1, Raw("", 101)), n |-> 1]>>)

CreateInput(user, filename, content, encrypt, directory_id) ==
    [user |-> user, filename |-> filename, content |-> content,
     encrypt |-> encrypt, directory_id |-> directory_id]

\* the create calls explored: plain files under names that sanitize to
\* themselves ("a", "b_") or not ("b?"), in the root and in directory 1, a
\* name that sanitizes to the empty string, oversized and encrypted
\* content, well-formed and malformed JSON, uploaded archives, and a
\* second user
CreateInputs ==
    { CreateInput(1, n, hello, FALSE, NoId) : n \in { <<"a">>, <<"b", "?">>, <<"b", "_">>, <<" ">> } }
    \cup { CreateInput(1, <<"a">>, bye, FALSE, 1),
           CreateInput(1, <<"a">>, Oversize, FALSE, NoId),
           CreateInput(1, <<"a">>, hello, TRUE, NoId),
           CreateInput(1, <<"j">> \o json_suffix, Raw("{}", 0), FALSE, NoId),
           CreateInput(1, <<"j">> \o json_suffix, hello, FALSE, NoId),
           CreateInput(1, <<"p">> \o zip_suffix, GoodZip, FALSE, NoId),
           CreateInput(1, <<"z">>, BombZip, FALSE, NoId),
           CreateInput(2, <<"a">>, hello, FALSE, NoId) }
Keys == {"k1"}
UpdateContents == {bye, Oversize}
ArchiveNames == { <<"p">> }
\* the ids handed out so far, and with Unissued the next one
Issued == 1..(next_id - 1)
Unissued == {next_id}
\* the lists of sources handed to a build: none, one or two ids
FileIdLists ==
    {<<>>} \cup {<<a>> : a \in Issued \cup Unissued}
    \cup {<<a, b>> : a \in Issued, b \in Issued}

(***************************************************************************)
(* Actions: one per service call.                                          *)
(***************************************************************************)
Init ==
    /\ files = {}
    /\ next_id = 1
    /\ disk = <<>>
    /\ operations = <<>>
    /\ last = [n |-> 0, op |-> "init", user |-> NoId, args |-> None, err |-> "none",
               ret |-> None]
    /\ NoTasks

CanCall == last.n < MaxCalls
CanInsert == next_id <= MaxId

Create ==
    \E in \in CreateInputs, key \in Keys :
        /\ CanCall /\ CanInsert
        /\ Returns("create", in.user, in,
                   create_file(Store, in.user, in.filename, in.content, in.encrypt,
                               in.directory_id, key))

Read ==
    \E user \in Users, file_id \in Issued \cup Unissued :
        /\ CanCall
        /\ Returns("read", user, [file_id |-> file_id],
                   read_file(Store, user, file_id))

Update ==
    \E user \in Users, file_id \in Issued, new_content \in UpdateContents :
        /\ CanCall
        /\ Returns("update", user, [file_id |-> file_id, new_content |-> new_content],
                   update_file(Store, user, file_id, new_content))

Delete ==
    \E user \in Users, file_id \in Issued \cup Unissued :
        /\ CanCall
        /\ Returns("delete", user, [file_id |-> file_id],
                   delete_file(Store, user, file_id))

Build ==
    \E user \in Archivists, file_ids \in FileIdLists, archive_name \in ArchiveNames :
        /\ CanCall /\ CanInsert
        /\ Returns("build", user,
                   [file_ids |-> file_ids, archive_name |-> archive_name],
                   create_zip_archive(Store, user, file_ids, archive_name))

Extract ==
    \E user \in Archivists, archive_file_id \in Issued :
        /\ CanCall /\ CanInsert
        /\ Returns("extract", user, [archive_file_id |-> archive_file_id],
                   extract_zip_archive(Store, user, archive_file_id))

ListContents ==
    \E user \in Archivists, archive_file_id \in Issued :
        /\ CanCall
        /\ Returns("listContents", user, [archive_file_id |-> archive_file_id],
                   list_archive_contents(Store, user, archive_file_id))

Next ==
    \/ Create
    \/ Read
    \/ Update
    \/ Delete
    \/ Build
    \/ Extract
    \/ ListContents

Spec == Init /\ [][Next]_vars

(***************************************************************************)
(* Properties of the file store                                            *)
(***************************************************************************)
\* the step is a call of op
Calls(op) == last'.n = last.n + 1 /\ last'.op = op

\* C1: a successful create of an unencrypted file with content C, directly
\* followed by a read of the returned id by the same user, makes the read
\* succeed and return exactly C with size = |C| and checksum = hash(C).
C1_RoundTrip ==
    [][ ( /\ last.op = "create" /\ last.err = "none" /\ ~last.args.encrypt
          /\ Calls("read")
          /\ last'.user = last.user
          /\ last'.args.file_id = last.ret.id )
        => ( /\ last'.err = "none"
             /\ last'.ret.content = last.args.content
             /\ last'.ret.file.size = BytesLen(last.args.content)
             /\ last'.ret.file.checksum = Sha256(last.args.content) ) ]_vars

\* a read has returned "hello" right after the create that stored it
C1_Witness ==
    /\ last.op = "read" /\ last.err = "none"
    /\ last.ret.content = hello
    /\ Len(operations) >= 2
    /\ operations[Len(operations) - 1].operation_type = "CREATE"
    /\ operations[Len(operations) - 1].success
    /\ operations[Len(operations) - 1].file_id = last.args.file_id
    /\ operations[Len(operations) - 1].user_id = last.user

\* the step is a create whose (owner, name, directory) already has a record
DuplicateCreate ==
    /\ Calls("create")
    /\ SameName(Store, last'.user, last'.args.filename, last'.args.directory_id) # {}

\* the failed create left records, ids and stored bytes as they were, and
\* the key still has exactly one record
NothingCreated ==
    /\ last'.err # "none"
    /\ files' = files /\ next_id' = next_id /\ disk' = disk
    /\ Cardinality(SameName([files |-> files'], last'.user, last'.args.filename,
                            last'.args.directory_id)) = 1

\* C2 as stated: a create under an existing (owner, name, directory) fails
\* with DuplicateName and leaves exactly one record with that key and the
\* store unchanged.
C2_DuplicateName ==
    [][ DuplicateCreate => (NothingCreated /\ last'.err = "DuplicateName") ]_vars

\* C2: a create under an existing (owner, name, directory) fails and leaves
\* exactly one record with that key and the store unchanged; the failure is
\* DuplicateName when the content passes the size limit and the format
\* check, and otherwise the failure of that earlier check.
C2_DuplicateRejected ==
    [][ DuplicateCreate =>
        ( /\ NothingCreated
          /\ last'.err =
                IF BytesLen(last'.args.content) > max_file_size
                THEN "SizeLimitExceeded"
                ELSE IF ~validate_file_format(last'.args.filename, last'.args.content)
                THEN "InvalidFormat"
                ELSE "DuplicateName" ) ]_vars

\* a create was refused as a duplicate
C2_Witness ==
    /\ last.op = "create" /\ last.err = "DuplicateName"
    /\ SameName(Store, last.user, last.args.filename, last.args.directory_id) # {}

\* p lies strictly inside directory dir
StrictlyInside(p, dir) == Len(p) > Len(dir) /\ IsRelativeTo(p, dir)

\* C3: the storage locations of the records are pairwise distinct, and each
\* lies strictly inside its owner's sandbox directory.
C3_DistinctLocations ==
    /\ \A f, g \in files : f # g => f.storage_path # g.storage_path
    /\ \A f \in files :
          StrictlyInside(f.storage_path, _get_user_storage_path(f.owner_id))

\* C4: between calls, every record whose bytes are on disk has a checksum
\* equal to the hash of those bytes, and when it is unencrypted a size
\* equal to their length.
C4_ChecksumAndSize ==
    \A f \in files :
        f.storage_path \in DOMAIN disk =>
            /\ f.checksum = Sha256(disk[f.storage_path])
            /\ ~f.is_encrypted => f.size = BytesLen(disk[f.storage_path])

\* C5: between calls, the records and the stored files correspond one to
\* one: every record's location holds a file, and every stored file is the
\* location of exactly one record.
C5_RecordsMatchFiles ==
    /\ \A f \in files : f.storage_path \in DOMAIN disk
    /\ \A p \in DOMAIN disk :
          Cardinality({f \in files : f.storage_path = p}) = 1

\* extraction x of an archive built from the sources file_ids of user
\* registered one file per source, named "extracted_" + source name, with
\* the source's content
ExtractedAll(st, user, file_ids, x) ==
    /\ x.err = "none"
    /\ Len(x.ret.extracted_files) = Len(file_ids)
    /\ \A i \in 1..Len(file_ids) :
          \E f \in FindFile(st, user, file_ids[i]) :
              /\ x.ret.extracted_files[i].original_name
                    = extracted_prefix \o f.original_name
              /\ x.ret.extracted_files[i].storage_path \in DOMAIN x.st.disk
              /\ f.storage_path \in DOMAIN st.disk
              /\ x.st.disk[x.ret.extracted_files[i].storage_path]
                    = st.disk[f.storage_path]

\* C6: after a successful build, the returned archive record is readable,
\* and extracting it succeeds and registers exactly one file per source,
\* named "extracted_" + the source's name, with the source's content.
C6_BuildThenExtract ==
    (last.op = "build" /\ last.err = "none") =>
        /\ ReadBody(Store, last.user, last.ret.id).err = "none"
        /\ ExtractedAll(Store, last.user, last.args.file_ids,
                        extract_zip_archive(Store, last.user, last.ret.id))

(***************************************************************************)
(* Extraction of uploaded archives.  An upload is any byte string, so the  *)
(* member list is whatever its author declared: sizes and names need not   *)
(* be what zipfile itself would write.                                     *)
(***************************************************************************)
e_plain == ZipInfo(<<"f">>, 1, 1, Raw("x", 0))
e_text == ZipInfo(<<"g">>, 5, 7, hello)
\* file_size / compress_size exactly 100, and just above
e_r100 == ZipInfo(<<"h">>, 300, 3, Raw("", 300))
e_r101 == ZipInfo(<<"h">>, 303, 3, Raw("", 303))
\* an empty member: ratio 0
e_empty == ZipInfo(<<"e">>, 0, 2, Raw("", 0))
\* a member declaring 500 bytes and compress_size 0
e_c0 == ZipInfo(<<"s">>, 500, 0, Unreadable)
\* file_size exactly max_file_size (at ratio exactly 100), and one more
e_max == ZipInfo(<<"m">>, max_file_size, max_file_size \div 100, Unreadable)
e_over == ZipInfo(<<"m">>, max_file_size + 1, max_file_size \div 100 + 1, Unreadable)
\* half of max_zip_size, and one more
e_half == ZipInfo(<<"t">>, max_zip_size \div 2, max_zip_size \div 2,
                  Raw("", max_zip_size \div 2))
e_half1 == ZipInfo(<<"v">>, max_zip_size \div 2 + 1, max_zip_size \div 2 + 1,
                   Raw("", max_zip_size \div 2 + 1))
\* a reserved device name
e_con == ZipInfo(<<"C", "O", "N">>, 1, 1, Raw("x", 0))
e_dots == ZipInfo(<<".", ".", "/", "x">>, 1, 1, Raw("x", 0))
e_abs == ZipInfo(<<"/", "x">>, 1, 1, Raw("x", 0))
\* directory members: plain, with ".." in the name, declaring ratio 101
e_dir == ZipInfo(<<"d", "/">>, 0, 0, Raw("", 0))
e_dirdots == ZipInfo(<<".", ".", "/", "d", "/">>, 0, 0, Raw("", 0))
e_dirbomb == ZipInfo(<<"b", "/">>, 101, 1, Unreadable)

Entries ==
    { e_plain, e_text, e_r100, e_r101, e_empty, e_c0, e_max, e_over, e_half,
      e_half1, e_con, e_dots, e_abs, e_dir, e_dirdots, e_dirbomb }

\* runs of equal members: one of each kind, max_archive_files and one more
\* of the plain file and of the directory, twice half of max_zip_size
Runs ==
    { [info |-> e, n |-> 1] : e \in Entries }
    \cup { [info |-> e_plain, n |-> max_archive_files],
           [info |-> e_plain, n |-> max_archive_files + 1],
           [info |-> e_dir, n |-> max_archive_files + 1],
           [info |-> e_half, n |-> 2] }

\* the uploaded archives: none, one or two runs
Archives ==
    { Zip(<<>>) } \cup { Zip(<<r>>) : r \in Runs }
    \cup { Zip(<<r, q>>) : r \in Runs, q \in Runs }

upload_name == <<"z">>
\* the names an archive is uploaded under: a plain one, and the name
\* list_archive_contents gives its temporary copy of file 1
UploadNames == {upload_name, temp_list_name(1)}

Uploaded(r) ==
    /\ files = r.st.files
    /\ next_id = r.st.next_id
    /\ disk = r.st.disk
    /\ operations = r.st.operations
    /\ last = [n |-> 1, op |-> "create", user |-> r.ret.owner_id,
               args |-> CreateInput(r.ret.owner_id, r.ret.original_name,
                                    r.st.disk[r.ret.storage_path], FALSE, NoId),
               err |-> r.err, ret |-> r.ret]
    /\ NoTasks

\* the store after the first call, create_file of an archive
InitArchive ==
    \E a \in Archives, name \in UploadNames, key \in Keys :
        Uploaded(create_file([files |-> {}, next_id |-> 1, disk |-> <<>>,
                              operations |-> <<>>],
                             1, name, a, FALSE, NoId, key))

NextArchive ==
    \/ Extract
    \/ ListContents

SpecArchive == InitArchive /\ [][NextArchive]_vars

(***************************************************************************)
(* Properties of extraction and of the validator                           *)
(***************************************************************************)
\* the step number i of trace t is a decompression or a registration
Unpacks(t, i) == t[i] \in {"decompress", "register"}

\* C7: in an extract call the validation of the whole member list is the
\* first step and comes once, before any member is decompressed and before
\* any file is registered; when validation rejects the archive (or is never
\* reached) nothing is decompressed and the call creates no record.
C7_ValidateFirst ==
    [][ Calls("extract") =>
        ( /\ \A i \in 1..Len(last'.ret.trace) :
                /\ Unpacks(last'.ret.trace, i) =>
                      /\ i > 1
                      /\ last'.ret.trace[1] = "validate"
                      /\ last'.ret.verdict = "none"
                /\ last'.ret.trace[i] = "validate" => i = 1
          /\ last'.ret.verdict # "none" =>
                /\ \A i \in 1..Len(last'.ret.trace) : ~Unpacks(last'.ret.trace, i)
                /\ last'.ret.extracted_files = <<>>
                /\ files' = files
                /\ next_id' = next_id ) ]_vars

\* an accepted archive of two members was validated, then unpacked member
\* by member
C7_Witness ==
    /\ last.op = "extract" /\ last.err = "none"
    /\ last.ret.verdict = "none"
    /\ last.ret.trace = <<"validate", "decompress", "register", "decompress", "register">>

\* the runs of member list z that the policy looks at: the regular files,
\* and with dirs the directory members too
Considered(z, dirs) ==
    {i \in 1..Len(z) : z[i].n > 0 /\ (dirs \/ ~is_dir(z[i].info))}

RECURSIVE NumEntries(_, _)
\* number of members in the runs I of z
NumEntries(z, I) ==
    IF I = {} THEN 0
    ELSE LET i == CHOOSE j \in I : TRUE IN z[i].n + NumEntries(z, I \ {i})

RECURSIVE DeclaredSize(_, _)
\* sum of the declared uncompressed sizes of the members in the runs I of z
DeclaredSize(z, I) ==
    IF I = {} THEN 0
    ELSE LET i == CHOOSE j \in I : TRUE
         IN  z[i].n * z[i].info.file_size + DeclaredSize(z, I \ {i})

RECURSIVE RatioSum(_, _)
\* sum of file_size / compress_size over the members in the runs I of z
RatioSum(z, I) ==
    IF I = {} THEN Ratio(0, 1)
    ELSE LET i == CHOOSE j \in I : TRUE
         IN  RatioAdd(Ratio(z[i].n * z[i].info.file_size, z[i].info.compress_size),
                      RatioSum(z, I \ {i}))

\* the policy conditions on one member
TooLarge(info) == info.file_size > max_file_size
RatioOver(info) ==
    info.compress_size > 0 /\ info.file_size > max_entry_ratio * info.compress_size
Dangerous(info) == ContainsDotDot(info.filename) \/ StartsWith(info.filename, <<"/">>)

\* the policy conditions on the archive
TooManyFiles(z) == NumEntries(z, Considered(z, FALSE)) > max_archive_files
TooLargeInAll(z, dirs) == DeclaredSize(z, Considered(z, dirs)) > max_zip_size
WithRatio(z, dirs) == {i \in Considered(z, dirs) : z[i].info.compress_size > 0}
MeanOver(z, dirs) ==
    /\ WithRatio(z, dirs) # {}
    /\ RatioGreater(RatioSum(z, WithRatio(z, dirs)),
                    max_mean_ratio * NumEntries(z, WithRatio(z, dirs)))

\* at least one policy condition is violated
PolicyViolated(z, dirs) ==
    \/ TooManyFiles(z)
    \/ \E i \in Considered(z, dirs) : TooLarge(z[i].info)
    \/ \E i \in Considered(z, dirs) : RatioOver(z[i].info)
    \/ MeanOver(z, dirs)
    \/ TooLargeInAll(z, dirs)
    \/ \E i \in Considered(z, dirs) : Dangerous(z[i].info)

\* the latest call was an extract that ran the validator
Validated == last.op = "extract" /\ last.ret.verdict # "unchecked"

\* C8 as stated: the validator rejects an archive if and only if a policy
\* condition is violated, the per-entry conditions, the total size and the
\* mean ratio being taken over all entries of the archive.
C8_RejectsIffViolated ==
    Validated => (last.ret.verdict # "none" <=> PolicyViolated(last.ret.members, TRUE))

\* C8: the validator rejects an archive if and only if a policy condition is
\* violated by its non-directory entries (directory entries are skipped by
\* every check); values equal to a threshold are accepted and an entry with
\* compressed size 0 enters no ratio check.
C8_RejectsIffFileViolates ==
    Validated => (last.ret.verdict # "none" <=> PolicyViolated(last.ret.members, FALSE))

\* an archive with an entry at ratio exactly 100 and a mean ratio exactly 50
\* was accepted
C8_Witness ==
    /\ Validated /\ last.ret.verdict = "none"
    /\ \E i \in Considered(last.ret.members, FALSE) :
          /\ last.ret.members[i].info.compress_size > 0
          /\ last.ret.members[i].info.file_size
                = max_entry_ratio * last.ret.members[i].info.compress_size
    /\ RatioSum(last.ret.members, WithRatio(last.ret.members, FALSE))
          = Ratio(max_mean_ratio * NumEntries(last.ret.members,
                                              WithRatio(last.ret.members, FALSE)), 1)

\* the members before run i are regular files that pass the per-entry checks
\* or directories
FirstOffender(z, i) ==
    /\ i \in Considered(z, FALSE)
    /\ TooLarge(z[i].info) \/ RatioOver(z[i].info) \/ Dangerous(z[i].info)
    /\ \A j \in Considered(z, FALSE) :
          j < i => ~(TooLarge(z[j].info) \/ RatioOver(z[j].info) \/ Dangerous(z[j].info))

\* the failure of the check that fails first: members in archive order,
\* each for size, ratio and name, then count, total size and mean ratio
FirstFailure(z) ==
    IF \E i \in 1..Len(z) : FirstOffender(z, i)
    THEN LET i == CHOOSE j \in 1..Len(z) : FirstOffender(z, j)
         IN  IF TooLarge(z[i].info) THEN "EntryTooLarge"
             ELSE IF RatioOver(z[i].info) THEN "SuspiciousCompressionRatio"
             ELSE "DangerousPath"
    ELSE IF TooManyFiles(z) THEN "ArchiveTooManyFiles"
    ELSE IF TooLargeInAll(z, FALSE) THEN "ArchiveTooLarge"
    ELSE IF MeanOver(z, FALSE) THEN "SuspiciousCompressionRatio"
    ELSE "none"

\* some entry's ratio exceeds 100 or the mean ratio exceeds 50
RatioViolated(z, dirs) ==
    \/ \E i \in Considered(z, dirs) : RatioOver(z[i].info)
    \/ MeanOver(z, dirs)

\* a policy condition other than the ratios is violated
OtherViolated(z) ==
    \/ TooManyFiles(z)
    \/ TooLargeInAll(z, FALSE)
    \/ \E i \in Considered(z, FALSE) : TooLarge(z[i].info) \/ Dangerous(z[i].info)

\* the latest call decompressed nothing
NothingDecompressed == last.ret.trace = <<"validate">> /\ last.ret.extracted_files = <<>>

\* C9 as stated: an archive whose mean ratio exceeds 50 or with an entry
\* whose ratio exceeds 100 fails with SuspiciousCompressionRatio, whatever
\* else it violates, and nothing is decompressed.
C9_AlwaysSuspicious ==
    (Validated /\ RatioViolated(last.ret.members, TRUE)) =>
        /\ last.ret.verdict = "SuspiciousCompressionRatio"
        /\ NothingDecompressed

\* C9: an archive whose non-directory entries have a mean ratio over 50 or
\* include a ratio over 100 is rejected and nothing is decompressed; the
\* failure is that of the check that fails first, which is
\* SuspiciousCompressionRatio when no other policy condition is violated.
C9_RatioRejected ==
    (Validated /\ RatioViolated(last.ret.members, FALSE)) =>
        /\ last.ret.verdict # "none"
        /\ last.err = last.ret.verdict
        /\ NothingDecompressed
        /\ last.ret.verdict = FirstFailure(last.ret.members)
        /\ ~OtherViolated(last.ret.members) =>
              last.ret.verdict = "SuspiciousCompressionRatio"

\* an archive with no entry over 100 but a mean over 50 was rejected
C9_Witness ==
    /\ Validated
    /\ MeanOver(last.ret.members, FALSE)
    /\ \A i \in Considered(last.ret.members, FALSE) : ~RatioOver(last.ret.members[i].info)
    /\ last.err = "SuspiciousCompressionRatio"
    /\ NothingDecompressed

\* C10 as stated: an archive with more than max_archive_files non-directory
\* entries fails with ArchiveTooManyFiles before any payload is read.
C10_AlwaysTooManyFiles ==
    (Validated /\ TooManyFiles(last.ret.members)) =>
        /\ last.ret.verdict = "ArchiveTooManyFiles"
        /\ NothingDecompressed

\* C10: an archive with more than max_archive_files non-directory entries
\* is rejected before any payload is read; the failure is
\* ArchiveTooManyFiles when no non-directory entry by itself violates the
\* size, ratio or name condition, and otherwise that entry's failure.
C10_TooManyRejected ==
    (Validated /\ TooManyFiles(last.ret.members)) =>
        /\ last.ret.verdict # "none"
        /\ last.err = last.ret.verdict
        /\ NothingDecompressed
        /\ last.ret.verdict = FirstFailure(last.ret.members)
        /\ (\A i \in 1..Len(last.ret.members) : ~FirstOffender(last.ret.members, i)) =>
              last.ret.verdict = "ArchiveTooManyFiles"

\* an archive of max_archive_files + 1 files was rejected for their number
C10_Witness ==
    /\ Validated
    /\ NumEntries(last.ret.members, Considered(last.ret.members, FALSE))
          = max_archive_files + 1
    /\ last.err = "ArchiveTooManyFiles"
    /\ NothingDecompressed
\* the step is an extract that ran the validator
ValidatedStep == Calls("extract") /\ last'.ret.verdict # "unchecked"

\* the extract of the step registered no file
NothingRegistered ==
    /\ last'.ret.trace = <<"validate">>
    /\ last'.ret.extracted_files = <<>>
    /\ files' = files /\ next_id' = next_id

\* C11 as stated: an archive with an entry whose name contains ".." or
\* begins with "/" fails validation with DangerousPath and no file is
\* registered from it.
C11_AlwaysDangerousPath ==
    [][ ( /\ ValidatedStep
          /\ \E i \in Considered(last'.ret.members, TRUE) :
                Dangerous(last'.ret.members[i].info) )
        => (last'.err = "DangerousPath" /\ NothingRegistered) ]_vars

\* C11: an archive with a non-directory entry whose name contains ".." or
\* begins with "/" fails validation and no file is registered from it; the
\* failure is that of the check that fails first, which is DangerousPath
\* when no non-directory entry violates the size or the ratio condition.
C11_DangerousRejected ==
    [][ ( /\ ValidatedStep
          /\ \E i \in Considered(last'.ret.members, FALSE) :
                Dangerous(last'.ret.members[i].info) )
        => ( /\ last'.err # "none"
             /\ last'.err = last'.ret.verdict
             /\ NothingRegistered
             /\ last'.err = FirstFailure(last'.ret.members)
             /\ (\A i \in Considered(last'.ret.members, FALSE) :
                    ~TooLarge(last'.ret.members[i].info)
                    /\ ~RatioOver(last'.ret.members[i].info))
                  => last'.err = "DangerousPath" ) ]_vars

\* an archive with a file named "../x" was rejected as DangerousPath
C11_Witness ==
    /\ Validated
    /\ \E i \in Considered(last.ret.members, FALSE) :
          ContainsDotDot(last.ret.members[i].info.filename)
    /\ last.err = "DangerousPath"
    /\ NothingDecompressed
    /\ \A f \in files : f.id = last.args.archive_file_id

(***************************************************************************)
(* File names: the sanitizer and the resolver applied to names of every    *)
(* shape.                                                                  *)
(***************************************************************************)
\* a letter, the dot, a separator, the underscore, a blank and a dangerous
\* character
NameChars == {"a", ".", "/", "_", " ", "?"}

\* every name of at most MaxNameLen characters, two names that climb out
\* of the directory, and names of max_name_len and max_name_len + 1
\* characters
Names ==
    UNION {[1..k -> NameChars] : k \in 0..MaxNameLen}
    \cup {<<".", ".", "/", "a">>, <<".", ".", "/", ".", ".", "/", "a">>}
    \cup {[i \in 1..max_name_len |-> "a"], [i \in 1..(max_name_len + 1) |-> "a"]}

\* the empty store and a file name handed to a helper
InitNames ==
    \E filename \in Names :
        /\ files = {}
        /\ next_id = 1
        /\ disk = <<>>
        /\ operations = <<>>
        /\ last = [n |-> 0, op |-> "input", user |-> NoId,
                   args |-> [filename |-> filename], err |-> "none", ret |-> None]
        /\ NoTasks

\* a call of a helper of FileService that leaves the store alone
Computes(op, user, args, r) ==
    /\ CanCall
    /\ last' = [n |-> last.n + 1, op |-> op, user |-> user, args |-> args,
                err |-> r.err, ret |-> r.val]
    /\ UNCHANGED <<files, next_id, disk, operations, tasks, _lock, directories>>

Sanitize ==
    /\ last.op = "input"
    /\ Computes("sanitize", NoId, last.args, _validate_filename(last.args.filename))

ResolveWithinRoot ==
    \E user \in Users :
        /\ last.op = "input"
        /\ Computes("resolve", user, last.args,
                    _get_safe_file_path(user, last.args.filename))

NextNames ==
    \/ Sanitize
    \/ ResolveWithinRoot

SpecNames == InitNames /\ [][NextNames]_vars

\* s contains "../"
ContainsDotDotSlash(s) ==
    \E i \in 1..(Len(s) - 2) : s[i] = "." /\ s[i + 1] = "." /\ s[i + 2] = "/"

\* C12: resolving a file name that contains "../" or begins with "/" inside
\* the owner's sandbox fails with PathTraversal, and a path the resolver
\* returns is a strict descendant of the sandbox directory, never the
\* directory itself.
C12_TraversalRejected ==
    last.op = "resolve" =>
        /\ (ContainsDotDotSlash(last.args.filename)
             \/ StartsWith(last.args.filename, <<"/">>))
              => last.err = "PathTraversal"
        /\ last.err = "none"
              => StrictlyInside(last.ret, _get_user_storage_path(last.user))

\* s is empty or made of underscores
UnderscoreOnly(s) == \A i \in 1..Len(s) : s[i] = "_"

\* C13: sanitize fails with InvalidName exactly when the name is empty,
\* longer than 255 characters, or empty or underscore-only once every
\* dangerous character and every ".." is replaced by an underscore; in
\* every other case it returns a non-empty name without dangerous
\* characters and without "..".
C13_SanitizeDecision ==
    last.op = "sanitize" =>
        /\ last.err \in {"none", "InvalidName"}
        /\ last.err = "InvalidName"
              <=> \/ Len(last.args.filename) = 0
                  \/ Len(last.args.filename) > max_name_len
                  \/ UnderscoreOnly(ReplaceDotDot(ReplaceDangerous(last.args.filename)))
        /\ last.err = "none"
              => /\ last.ret # <<>>
                 /\ \A i \in 1..Len(last.ret) : last.ret[i] \notin dangerous_chars
                 /\ ~ContainsDotDot(last.ret)

(***************************************************************************)
(* Properties of the audit log                                             *)
(***************************************************************************)
\* the operation type the File Store logs for each of its calls
AuditType(op) ==
    CASE op = "create" -> "CREATE"
      [] op = "read" -> "READ"
      [] op = "update" -> "UPDATE"
      [] op = "delete" -> "DELETE"

\* the step is a call of one of the four File Store operations
FileStoreCall ==
    last'.n = last.n + 1 /\ last'.op \in {"create", "read", "update", "delete"}

\* the newest entry of the log after the step, and the entries before it
Newest == operations'[Len(operations')]
Older == SubSeq(operations', 1, Len(operations') - 1)

\* the entries of the log that the step found and left in place
Surviving ==
    IF last'.op = "delete" /\ last'.err = "none"
    THEN SelectSeq(operations, LAMBDA o : o.file_id # last'.args.file_id)
    ELSE operations

C15_AppendOnly ==
    [][ /\ Len(operations') >= Len(operations)
        /\ \A i \in 1..Len(operations) : operations'[i] = operations[i] ]_vars

\* the entries the step appended
Appended == SubSeq(operations', Len(operations) + 1, Len(operations'))

\* C16 as stated: a build appends exactly one audit entry in total.
C16_OneEntryInTotal ==
    [][ Calls("build") => Len(operations') = Len(operations) + 1 ]_vars

\* C16: a build appends exactly one ARCHIVE_CREATE entry, as its last
\* entry, whatever the number of sources; before it come the entries of
\* the File Store calls it makes: one READ entry per source read and, once
\* the sources are read, one CREATE entry for the archive.
C16_OneArchiveEntry ==
    [][ Calls("build") =>
        ( /\ Len(operations') > Len(operations)
          /\ \A i \in 1..Len(operations) : operations'[i] = operations[i]
          /\ Newest.operation_type = "ARCHIVE_CREATE"
          /\ Newest.success = (last'.err = "none")
          /\ \A i \in 1..(Len(Appended) - 1) :
                /\ Appended[i].operation_type \in {"READ", "CREATE"}
                /\ Appended[i].operation_type = "CREATE" => i = Len(Appended) - 1
          /\ Len(Appended) <= Len(last'.args.file_ids) + 2
          /\ last'.err = "none" =>
                /\ Len(Appended) = Len(last'.args.file_ids) + 2
                /\ Appended[Len(Appended) - 1].operation_type = "CREATE" ) ]_vars

\* a build of two sources appended READ, READ, CREATE, ARCHIVE_CREATE
C16_Witness ==
    /\ last.op = "build" /\ last.err = "none"
    /\ Len(last.args.file_ids) = 2
    /\ Len(operations) >= 4
    /\ operations[Len(operations)].operation_type = "ARCHIVE_CREATE"
    /\ operations[Len(operations) - 1].operation_type = "CREATE"
    /\ operations[Len(operations) - 2].operation_type = "READ"
    /\ operations[Len(operations) - 3].operation_type = "READ"

(***************************************************************************)
(* Concurrent calls                                                        *)
(*                                                                         *)
(* Each call of create_file, read_file, update_file or delete_file runs as *)
(* an asyncio task.  A task runs alone from one await to the next, so an   *)
(* action below is the code of a method between two awaits: entering the   *)
(* method up to session.execute, from the query result to session.commit,  *)
(* the commit, and the commit of the audit entry with the return.          *)
(***************************************************************************)
MaxTasks == 2
Tasks == 1..MaxTasks

\* a task that has not been called
Idle ==
    [op |-> "none", user |-> NoId, args |-> None, pc |-> "idle",
     added |-> {}, removed |-> {}, err |-> "none", ret |-> {},
     during |-> {}, called_under |-> NoId, returned_under |-> NoId]

InFlight(t) == tasks[t].pc \notin {"idle", "done"}

\* the lock is handed to a task although another one holds it
CanAcquire_Always(lock) == TRUE

\* asyncio.Lock.acquire returns at once when the lock is not held and
\* otherwise suspends the task until the holder releases it
CanAcquire(lock) == lock = NoId

\* read_file also runs inside "async with self._lock"
Gated_All(op) == TRUE

\* the methods whose body is inside "async with self._lock"
Gated(op) == op \in {"create", "update", "delete"}

\* the store the tasks start from: user 1 has one file, "a"
StoreBefore ==
    create_file([files |-> {}, next_id |-> 1, disk |-> <<>>, operations |-> <<>>],
                1, <<"a">>, hello, FALSE, NoId, "k1").st

TaskCall(op, user, args) == [op |-> op, user |-> user, args |-> args]

\* the calls explored: creates of a free name, of the name in use and of
\* oversized content, an update, deletes and reads of the file that exists
\* and of the one a create may add
TaskCalls ==
    { TaskCall("create", 1, in) :
        in \in { CreateInput(1, <<"b", "_">>, hello, FALSE, NoId),
                 CreateInput(1, <<"a">>, hello, FALSE, NoId),
                 CreateInput(1, <<"a">>, Oversize, FALSE, NoId) } }
    \cup { TaskCall("update", 1, [file_id |-> 1, new_content |-> bye]) }
    \cup { TaskCall("delete", 1, [file_id |-> id]) : id \in {1, 2} }
    \cup { TaskCall("read", 1, [file_id |-> id]) : id \in {1, 2} }

InitTasks ==
    /\ files = StoreBefore.files
    /\ next_id = StoreBefore.next_id
    /\ disk = StoreBefore.disk
    /\ operations = StoreBefore.operations
    /\ last = [n |-> 0, op |-> "init", user |-> NoId, args |-> None, err |-> "none",
               ret |-> None]
    /\ tasks = [t \in Tasks |-> Idle]
    /\ _lock = NoId
    /\ directories = {}

\* create_file: the checks made before the first await
CreatePre(user, filename, content) ==
    IF BytesLen(content) > max_file_size
    THEN "SizeLimitExceeded"
    ELSE IF ~validate_file_format(filename, content)
    THEN "InvalidFormat"
    ELSE _get_safe_file_path(user, filename).err

\* what a method raises between its entry and its first await
Precheck(c) ==
    IF c.op = "create"
    THEN CreatePre(c.user, c.args.filename, c.args.content)
    ELSE "none"

\* the try block of the method of call c from the query result to the
\* await of session.commit, on the store st
Body(st, c, key) ==
    CASE c.op = "create" ->
            CreateBody(st, c.user, c.args.filename, c.args.content, c.args.encrypt,
                       c.args.directory_id, key)
      [] c.op = "update" -> UpdateBody(st, c.user, c.args.file_id, c.args.new_content)
      [] c.op = "delete" -> DeleteBody(st, c.user, c.args.file_id)
      [] c.op = "read" -> ReadBody(st, c.user, c.args.file_id)

\* the audit entry the method of call c writes for the outcome r
Audit(c, r) ==
    CASE c.op = "create" -> CreateAudit(c.user, r)
      [] c.op = "update" -> UpdateAudit(c.user, r)
      [] c.op = "delete" -> DeleteAudit(c.user, r)
      [] c.op = "read" -> ReadAudit(c.user, r)

\* what the try block of task c has to return (c.ret holds it, and is
\* empty as long as there is nothing to return)
Returned(c) == CHOOSE v \in c.ret : TRUE

\* the file the success entry of task c refers to (delete_file passes none)
LoggedFile(c) ==
    CASE c.op = "create" -> Returned(c).id
      [] c.op = "update" -> Returned(c).id
      [] c.op = "delete" -> NoId
      [] c.op = "read" -> Returned(c).file.id

\* the task can go on from where it is suspended
Runnable(t) ==
    /\ InFlight(t)
    /\ (tasks[t].pc = "start" /\ Gated(tasks[t].op)) => CanAcquire(_lock)

\* leaving the method does not release the lock
Released_Kept(t) == _lock

\* the lock after task t leaves its method
Released(t) == IF Gated(tasks[t].op) THEN NoId ELSE _lock

\* a caller starts a call as a task; tasks are called in the order of
\* their numbers
Start(t, c) ==
    /\ tasks[t].pc = "idle"
    /\ \A u \in Tasks : u < t => tasks[u].pc # "idle"
    /\ tasks' = [tasks EXCEPT ![t] =
                    [Idle EXCEPT !.op = c.op, !.user = c.user, !.args = c.args,
                                 !.pc = "start",
                                 !.during = {u \in Tasks : InFlight(u)},
                                 !.called_under = _lock]]
    /\ UNCHANGED <<files, next_id, disk, operations, last, _lock, directories>>

Call(t) == \E c \in TaskCalls : Start(t, c)

\* entry of the method: "async with self._lock" where the method has it,
\* then the code up to the first await
Enter(t) ==
    /\ tasks[t].pc = "start"
    /\ Runnable(t)
    /\ _lock' = IF Gated(tasks[t].op) THEN t ELSE _lock
    /\ tasks' = [tasks EXCEPT
                    ![t].pc = IF Precheck(tasks[t]) = "none" THEN "execute" ELSE "except",
                    ![t].err = Precheck(tasks[t])]
    /\ UNCHANGED <<files, next_id, disk, operations, last, directories>>

\* the outcome r of the try block of task t: the bytes are on disk, the
\* rows added and removed wait in the session for the commit
Queried(t, r) ==
    /\ disk' = r.st.disk
    /\ tasks' = [tasks EXCEPT
                    ![t].pc = IF r.err # "none" THEN "except"
                              ELSE IF tasks[t].op = "read" THEN "log" ELSE "commit",
                    ![t].err = r.err,
                    ![t].ret = IF r.err # "none" THEN {} ELSE {r.ret},
                    ![t].added = r.st.files \ files,
                    ![t].removed = files \ r.st.files]
    /\ UNCHANGED <<files, next_id, operations, last, _lock, directories>>

\* from the result of session.execute to the next await
Query(t) ==
    /\ tasks[t].pc = "execute"
    /\ \E key \in Keys : \E r \in {Body(Store, tasks[t], key)} : Queried(t, r)

\* the rows of task t as the commit writes them: a new row gets the next
\* primary key
Flushed(t) ==
    IF tasks[t].op = "create"
    THEN {[f EXCEPT !.id = next_id] : f \in tasks[t].added}
    ELSE tasks[t].added

\* session.commit of the method: the rows change; the audit rows of a
\* deleted file go with it.  A row to update or delete that is gone makes
\* the commit fail.
Commit(t) ==
    /\ tasks[t].pc = "commit"
    /\ IF tasks[t].removed \subseteq files
       THEN /\ files' = (files \ tasks[t].removed) \cup Flushed(t)
            /\ next_id' = IF tasks[t].op = "create" THEN next_id + 1 ELSE next_id
            /\ operations' =
                 SelectSeq(operations,
                           LAMBDA o : o.file_id \notin
                               ({f.id : f \in tasks[t].removed}
                                \ {f.id : f \in tasks[t].added}))
            /\ tasks' = [tasks EXCEPT
                            ![t].pc = "log",
                            ![t].ret = IF tasks[t].op = "create"
                                       THEN {CHOOSE f \in Flushed(t) : TRUE}
                                       ELSE @]
       ELSE /\ tasks' = [tasks EXCEPT ![t].pc = "except", ![t].err = "StaleData"]
            /\ UNCHANGED <<files, next_id, operations>>
    /\ UNCHANGED <<disk, last, _lock, directories>>

\* log_operation on the success path, then the return, which leaves the
\* "async with".  operations.file_id is a foreign key: an entry for a row
\* that is gone is refused, and the exception is caught by the except
\* branch of the method.
Log(t) ==
    /\ tasks[t].pc = "log"
    /\ IF LoggedFile(tasks[t]) # NoId /\ LoggedFile(tasks[t]) \notin {f.id : f \in files}
       THEN /\ tasks' = [tasks EXCEPT ![t].pc = "except", ![t].err = "IntegrityError"]
            /\ UNCHANGED <<operations, _lock>>
       ELSE /\ operations' =
                 Audit(tasks[t], Result(Store, "none", Returned(tasks[t]))).st.operations
            /\ tasks' = [tasks EXCEPT ![t].pc = "done", ![t].returned_under = _lock]
            /\ _lock' = Released(t)
    /\ UNCHANGED <<files, next_id, disk, last, directories>>

\* the except branch: the failure entry, then the exception leaves the
\* "async with"
Except(t) ==
    /\ tasks[t].pc = "except"
    /\ operations' = Audit(tasks[t], Result(Store, tasks[t].err, None)).st.operations
    /\ tasks' = [tasks EXCEPT ![t].pc = "done", ![t].ret = {},
                              ![t].returned_under = _lock]
    /\ _lock' = Released(t)
    /\ UNCHANGED <<files, next_id, disk, last, directories>>

NextTasks ==
    \E t \in Tasks :
        \/ Call(t)
        \/ Enter(t)
        \/ Query(t)
        \/ Commit(t)
        \/ Log(t)
        \/ Except(t)

SpecTasks == InitTasks /\ [][NextTasks]_vars

(***************************************************************************)
(* Properties of concurrent calls                                          *)
(***************************************************************************)
\* task t is between acquiring and releasing the lock of a mutation
InGate(t) ==
    /\ tasks[t].op \in {"create", "update", "delete"}
    /\ tasks[t].pc \in {"execute", "commit", "log", "except"}

MutualExclusion == \A t \in Tasks, u \in Tasks : InGate(t) /\ InGate(u) => t = u

Succeeded(t) == tasks[t].pc = "done" /\ tasks[t].err = "none"

SameKey(a, b) ==
    /\ a.user = b.user
    /\ a.filename = b.filename
    /\ a.directory_id = b.directory_id

\* t and u are finished creates of one key, and one was called while the
\* other was in flight
ConcurrentCreates(t, u) ==
    /\ t # u
    /\ tasks[t].op = "create" /\ tasks[u].op = "create"
    /\ tasks[t].pc = "done" /\ tasks[u].pc = "done"
    /\ SameKey(tasks[t].args, tasks[u].args)
    /\ u \in tasks[t].during \/ t \in tasks[u].during

RecordsOf(in) == SameName(Store, in.user, in.filename, in.directory_id)

ExactlyOne(t, u) ==
    /\ Succeeded(t) # Succeeded(u)
    /\ Cardinality(RecordsOf(tasks[t].args)) = 1

\* the create of task t succeeds when it is the only call on StoreBefore
Acceptable(t) ==
    \E key \in Keys : Body(StoreBefore, tasks[t], key).err = "none"

\* no call but those of t and u creates or deletes a record
NoOtherCreateOrDelete(t, u) ==
    \A v \in Tasks \ {t, u} : tasks[v].op \notin {"create", "delete"}

\* C17 as stated: at most one mutation is between acquiring and releasing
\* the lock, and of two concurrent creates of one (owner, directory, name)
\* exactly one succeeds and exactly one record results
C17_ExactlyOneCreated ==
    /\ MutualExclusion
    /\ \A t \in Tasks, u \in Tasks : ConcurrentCreates(t, u) => ExactlyOne(t, u)

\* C17: at most one mutation is between acquiring and releasing the lock;
\* no two records share (owner, directory, name); and of two concurrent
\* creates of one key, each of which succeeds when run alone, exactly one
\* succeeds, the other fails with DuplicateName, and exactly one record
\* results, as long as no other call creates or deletes a record
C17_MutualExclusion ==
    /\ MutualExclusion
    /\ \A f \in files : RecordsOf([user |-> f.owner_id, filename |-> f.original_name,
                                   directory_id |-> f.directory_id]) = {f}
    /\ \A t \in Tasks, u \in Tasks :
        (/\ ConcurrentCreates(t, u)
         /\ Acceptable(t) /\ Acceptable(u)
         /\ NoOtherCreateOrDelete(t, u))
        => /\ ExactlyOne(t, u)
           /\ {tasks[t].err, tasks[u].err} = {"none", "DuplicateName"}

\* two concurrent creates of a free name have finished, one of them called
\* while the other held the lock
C17_Witness ==
    \E t \in Tasks, u \in Tasks :
        /\ ConcurrentCreates(t, u)
        /\ Acceptable(t) /\ Acceptable(u)
        /\ NoOtherCreateOrDelete(t, u)
        /\ Succeeded(t)
        /\ tasks[u].called_under = t

\* the next step of a task that has been called
Resume(t) == Enter(t) \/ Query(t) \/ Commit(t) \/ Log(t) \/ Except(t)

Reads == {c \in TaskCalls : c.op = "read"}

\* the next task to be called
NextIdle(t) == tasks[t].pc = "idle" /\ \A u \in Tasks : u < t => tasks[u].pc # "idle"

\* C18: read never acquires the lock: the lock is never held by a read, and
\* whoever holds it, a read can be started and every read in progress,
\* however many there are, can take its next step
C18_ReadsNotGated ==
    /\ _lock \in Tasks => tasks[_lock].op # "read"
    /\ \A t \in Tasks : NextIdle(t) => \A c \in Reads : ENABLED Start(t, c)
    /\ \A t \in Tasks : tasks[t].op = "read" /\ InFlight(t) => ENABLED Resume(t)

\* a read was called while a mutation held the lock and has returned what
\* it read while that mutation still holds it
C18_Witness ==
    \E t \in Tasks, h \in Tasks :
        /\ tasks[t].op = "read" /\ Succeeded(t)
        /\ tasks[t].called_under = h /\ tasks[t].returned_under = h
        /\ _lock = h /\ InGate(h)

(***************************************************************************)
(* Creates in which a step raises                                          *)
(*                                                                         *)
(* The steps of create_file after the duplicate query that can raise for   *)
(* reasons outside the arguments: file_path.write_bytes, session.commit of *)
(* the row, and log_operation, whose own commit raises after a rollback.   *)
(***************************************************************************)
Faults == {"write_bytes", "commit", "log_operation"}

\* the except branch of a method when its log_operation can raise in turn:
\* the failure entry is stored, or it is not and the exception of
\* log_operation goes to the caller
ExceptWith(st, user, operation_type, err, logged) ==
    IF logged
    THEN LogFailure(st, user, operation_type, err, None)
    ELSE Result(st, err, None)

\* create_file whose try block would end as r, when the step fault raises:
\* write_bytes before any byte is written, the commit with the bytes on
\* disk, log_operation with the bytes on disk and the row committed
CreateFailing(st, user, r, fault, logged) ==
    CASE fault = "write_bytes" ->
            ExceptWith(st, user, "CREATE", "OSError", logged)
      [] fault = "commit" ->
            ExceptWith([st EXCEPT !.disk = r.st.disk], user, "CREATE",
                       "CommitFailed", logged)
      [] fault = "log_operation" ->
            ExceptWith(r.st, user, "CREATE", "AuditFailed", logged)

\* FileService.create_file when the step fault raises, if the call gets
\* that far
create_file_failing(st, user, filename, content, encrypt, directory_id, key, fault, logged) ==
    IF CreateBody(st, user, filename, content, encrypt, directory_id, key).err # "none"
    THEN create_file(st, user, filename, content, encrypt, directory_id, key)
    ELSE CreateFailing(st, user,
                       CreateBody(st, user, filename, content, encrypt,
                                  directory_id, key),
                       fault, logged)

\* the creates in which a step raises: one name, in the root and in
\* directory 1
FaultInputs ==
    { CreateInput(1, <<"a">>, hello, FALSE, NoId),
      CreateInput(1, <<"a">>, bye, FALSE, 1) }

CreateFault ==
    \E in \in FaultInputs, key \in Keys, fault \in Faults, logged \in BOOLEAN :
        /\ CanCall /\ CanInsert
        /\ Returns("create", in.user, in,
                   create_file_failing(Store, in.user, in.filename, in.content,
                                       in.encrypt, in.directory_id, key,
                                       fault, logged))

NextFaults ==
    \/ Create
    \/ CreateFault

SpecFaults == Init /\ [][NextFaults]_vars

\* the paths whose bytes the step has written
WrittenPaths == {p \in DOMAIN disk' : p \notin DOMAIN disk \/ disk'[p] # disk[p]}

\* C19: a create that reports failure to its caller, whatever the step that
\* failed, leaves no record for the call, and no record refers to bytes the
\* call wrote
C19_FailedCreateLeavesNothing ==
    [][Calls("create") /\ last'.err # "none"
        => /\ files' = files
           /\ \A f \in files' : f.storage_path \notin WrittenPaths]_vars

(***************************************************************************)
(* Properties of a failed build                                            *)
(***************************************************************************)
\* C20: a build that fails, for a missing source or for an archive name in
\* use, leaves every existing record and the bytes on disk of every
\* existing file as they were
C20_FailedBuildChangesNothing ==
    [][Calls("build") /\ last'.err # "none"
        => /\ files' = files
           /\ \A f \in files :
                f.storage_path \in DOMAIN disk
                => /\ f.storage_path \in DOMAIN disk'
                   /\ disk'[f.storage_path] = disk[f.storage_path]]_vars

(***************************************************************************)
(* Properties of an extraction that fails at an entry                      *)
(***************************************************************************)
RECURSIVE MemberAt(_, _, _)
\* the j-th file member of the runs of z from run i on
MemberAt(z, i, j) ==
    IF is_dir(z[i].info) \/ z[i].n = 0 THEN MemberAt(z, i + 1, j)
    ELSE IF j <= z[i].n THEN z[i].info
    ELSE MemberAt(z, i + 1, j - z[i].n)

\* the step is an extract that failed at an entry, the archive having been
\* accepted as a whole
FailsAtEntry == Calls("extract") /\ last'.err # "none" /\ last'.ret.verdict = "none"

Registered == {last'.ret.extracted_files[i] : i \in 1..Len(last'.ret.extracted_files)}

\* C21: when processing entry k of an archive fails, the extract call
\* fails, the files of the k - 1 entries before it were registered in
\* archive order and remain in the store with their bytes, and no file is
\* registered for entry k or a later one
C21_EarlierEntriesRemain ==
    [][ FailsAtEntry
        => /\ Len(last'.ret.extracted_files)
                < NumEntries(last'.ret.members, Considered(last'.ret.members, FALSE))
           /\ files' = files \cup Registered
           /\ Registered \cap files = {}
           /\ Cardinality(Registered) = Len(last'.ret.extracted_files)
           /\ next_id' = next_id + Len(last'.ret.extracted_files)
           /\ \A i \in 1..Len(last'.ret.extracted_files) :
                /\ last'.ret.extracted_files[i].original_name
                     = extracted_prefix \o MemberAt(last'.ret.members, 1, i).filename
                /\ last'.ret.extracted_files[i].storage_path \in DOMAIN disk'
                /\ disk'[last'.ret.extracted_files[i].storage_path]
                     = MemberAt(last'.ret.members, 1, i).data ]_vars

\* an extract failed at its second entry and the file of the first is in
\* the store
C21_Witness ==
    /\ last.op = "extract" /\ last.err # "none" /\ last.ret.verdict = "none"
    /\ Len(last.ret.extracted_files) = 1
    /\ last.ret.extracted_files[1] \in files

(***************************************************************************)
(* Properties of the temporary directory of an extraction                  *)
(***************************************************************************)
\* temp_dir of the extract call by user of the archive with this id
TempDirOf(user, archive_file_id) ==
    _get_user_storage_path(user) \o <<temp_extract_name(archive_file_id)>>

\* directory d exists on dsk: a regular file lies below it
DirExists(dsk, d) ==
    \E p \in DOMAIN dsk : Len(p) > Len(d) /\ IsRelativeTo(p, d)

\* C22: after an extract call returns, with success or with a failure, the
\* temporary extraction directory of the call, with the copy of the archive
\* written into it, does not exist in the owner's directory
C22_TempDirRemoved ==
    [][ Calls("extract")
        => /\ ~DirExists(disk', TempDirOf(last'.user, last'.args.archive_file_id))
           /\ TempDirOf(last'.user, last'.args.archive_file_id) \notin DOMAIN disk'
      ]_vars

\* an extract that wrote the archive into its temporary directory and
\* registered two files has returned, and the directory is gone
C22_Witness ==
    /\ last.op = "extract" /\ last.err = "none"
    /\ Len(last.ret.extracted_files) = 2
    /\ ~DirExists(disk, TempDirOf(last.user, last.args.archive_file_id))

(***************************************************************************)
(* Properties of owner isolation                                           *)
(***************************************************************************)
\* the records that do not belong to user
OthersFiles(F, user) == {f \in F : f.owner_id # user}

\* the step is a read, update or delete of a file of another owner
ForeignAccess ==
    /\ Calls("read") \/ Calls("update") \/ Calls("delete")
    /\ \E f \in OthersFiles(files, last'.user) : f.id = last'.args.file_id

\* the step is a read by the owner of record f
OwnRead(f) ==
    Calls("read") /\ f.id = last'.args.file_id /\ f.owner_id = last'.user

\* C23: read, update and delete of a file of another owner fail with
\* NotFound; no call of a user adds, changes or removes a record of another
\* owner or changes the bytes of another owner's file; a read by the owner
\* fails with NotFound when the bytes of the record are missing, and with
\* NotSupported when the bytes are there and the record is encrypted
C23_OwnerIsolation ==
    [][ /\ ForeignAccess => last'.err = "NotFound"
        /\ last'.n = last.n + 1
            => /\ OthersFiles(files', last'.user) = OthersFiles(files, last'.user)
               /\ \A f \in OthersFiles(files, last'.user) :
                    /\ f.storage_path \in DOMAIN disk'
                         <=> f.storage_path \in DOMAIN disk
                    /\ f.storage_path \in DOMAIN disk
                         => disk'[f.storage_path] = disk[f.storage_path]
        /\ \A f \in files :
            OwnRead(f)
            => /\ f.storage_path \notin DOMAIN disk => last'.err = "NotFound"
               /\ (f.storage_path \in DOMAIN disk /\ f.is_encrypted)
                    => last'.err = "NotSupported" ]_vars

\* user 2 asked to delete a file of user 1, the call failed with NotFound
\* and the file is still there
C23_Witness ==
    /\ last.op = "delete" /\ last.user = 2 /\ last.err = "NotFound"
    /\ \E f \in files :
        /\ f.id = last.args.file_id /\ f.owner_id = 1
        /\ f.storage_path \in DOMAIN disk

(***************************************************************************)
(* Properties of update and delete                                         *)
(***************************************************************************)
\* record g is record f with at most size and checksum changed
SameButSizeAndChecksum(f, g) ==
    g = [f EXCEPT !.size = g.size, !.checksum = g.checksum]

\* the bytes of the file of record h are the same after the step
BytesKept(h) ==
    /\ h.storage_path \in DOMAIN disk' <=> h.storage_path \in DOMAIN disk
    /\ h.storage_path \in DOMAIN disk => disk'[h.storage_path] = disk[h.storage_path]

\* C24: a successful update changes only the bytes, the size and the
\* checksum of its target, every other record and every other record's
\* file staying as they were; an update that fails leaves the records and
\* the bytes on disk exactly as before
C24_UpdateFrame ==
    [][ Calls("update")
        => IF last'.err = "none"
           THEN \E f \in FindFile(Store, last'.user, last'.args.file_id) :
                   /\ files' \ {last'.ret} = files \ {f}
                   /\ last'.ret \in files'
                   /\ SameButSizeAndChecksum(f, last'.ret)
                   /\ disk'[f.storage_path] = last'.args.new_content
                   /\ \A h \in files \ {f} : BytesKept(h)
           ELSE files' = files /\ disk' = disk ]_vars

\* C25: a delete of an id that matches no record of the caller, because it
\* was deleted before or never existed, reports NotFound and nothing else
\* and leaves every record and the bytes of every file unchanged; a delete
\* of an id that matches a record returns true and removes the record,
\* also when the bytes of the record were already missing from disk
C25_DeleteIdempotent ==
    [][ Calls("delete")
        => IF FindFile(Store, last'.user, last'.args.file_id) = {}
           THEN /\ last'.err = "NotFound"
                /\ files' = files
                /\ disk' = disk
           ELSE /\ last'.err = "none"
                /\ last'.ret = TRUE
                /\ files' = files \ FindFile(Store, last'.user, last'.args.file_id) ]_vars

\* an id that was handed out and whose record is gone was deleted again,
\* and the call reported NotFound
C25_Witness ==
    /\ last.op = "delete" /\ last.err = "NotFound"
    /\ last.args.file_id \in Issued
    /\ \A f \in files : f.id # last.args.file_id

(***************************************************************************)
(* Properties of listing an archive                                        *)
(***************************************************************************)
\* the temporary copy list_archive_contents makes for the call of the step
TempListOf == _get_user_storage_path(last'.user) \o <<temp_list_name(last'.args.archive_file_id)>>

\* the step is a listContents of record f
Lists(f) ==
    /\ Calls("listContents")
    /\ f.id = last'.args.archive_file_id /\ f.owner_id = last'.user

\* C26: listContents returns one element per non-directory entry of the
\* archive and persists nothing: whether it succeeds or fails, the records
\* are unchanged, the bytes on disk of every stored file are unchanged, and
\* the temporary file of the call is not left in the owner's directory
C26_ListPersistsNothing ==
    [][ /\ Calls("listContents")
            => /\ files' = files
               /\ \A f \in files : BytesKept(f)
               /\ TempListOf \notin DOMAIN disk'
        /\ \A f \in files :
            (Lists(f) /\ last'.err = "none")
            => NumEntries(last'.ret, 1..Len(last'.ret))
                 = NumEntries(infolist(disk[f.storage_path]),
                              Considered(infolist(disk[f.storage_path]), FALSE)) ]_vars

(***************************************************************************)
(* DirectoryService.get_or_create_root_directory                           *)
(*                                                                         *)
(* The calls run as tasks, as many as MaxCalls; a task is suspended at     *)
(* db.execute, at db.commit and at db.rollback, and nothing serialises the *)
(* calls.                                                                  *)
(***************************************************************************)
RootTasks == 1..MaxCalls

root_path == <<"/">>

\* a call that has not been made
NoRootCall == [pc |-> "idle", user |-> NoId, err |-> "none", ret |-> NoId]

InitRoots ==
    /\ files = {}
    /\ next_id = 1
    /\ disk = <<>>
    /\ operations = <<>>
    /\ last = [n |-> 0, op |-> "init", user |-> NoId, args |-> None, err |-> "none",
               ret |-> None]
    /\ tasks = [t \in RootTasks |-> NoRootCall]
    /\ _lock = NoId
    /\ directories = {}

\* the rows select(Directory).where(owner_id == user.id).where(path == "/")
\* finds
RootsOf(user) == {d \in directories : d.owner_id = user /\ d.path = root_path}

\* Directory(name="/", path="/", parent_id=None, owner_id=user.id) with the
\* next primary key; no row of the table is ever deleted here
NewRoot(user) ==
    [id |-> Cardinality(directories) + 1, name |-> root_path, path |-> root_path,
     parent_id |-> NoId, owner_id |-> user]

\* a caller starts get_or_create_root_directory, which runs up to
\* await db.execute
RootCall(t) ==
    /\ tasks[t].pc = "idle"
    /\ \A u \in RootTasks : u < t => tasks[u].pc # "idle"
    /\ \E user \in Users :
        tasks' = [tasks EXCEPT ![t] = [NoRootCall EXCEPT !.pc = "execute", !.user = user]]
    /\ UNCHANGED <<files, next_id, disk, operations, last, _lock, directories>>

\* from the result of db.execute: scalar_one_or_none raises on two rows;
\* a row found is returned; otherwise a new row is added and the call
\* waits in db.commit
RootQuery(t) ==
    /\ tasks[t].pc = "execute"
    /\ tasks' = [tasks EXCEPT ![t] =
                    IF Cardinality(RootsOf(tasks[t].user)) > 1
                    THEN [@ EXCEPT !.pc = "rollback", !.err = "MultipleResultsFound"]
                    ELSE IF RootsOf(tasks[t].user) # {}
                    THEN [@ EXCEPT !.pc = "done",
                                   !.ret = (CHOOSE d \in RootsOf(tasks[t].user) : TRUE).id]
                    ELSE [@ EXCEPT !.pc = "commit"]]
    /\ UNCHANGED <<files, next_id, disk, operations, last, _lock, directories>>

\* db.commit inserts the row; db.refresh; the row is returned
RootCommit(t) ==
    /\ tasks[t].pc = "commit"
    /\ directories' = directories \cup {NewRoot(tasks[t].user)}
    /\ tasks' = [tasks EXCEPT ![t].pc = "done", ![t].ret = NewRoot(tasks[t].user).id]
    /\ UNCHANGED <<files, next_id, disk, operations, last, _lock>>

\* the except branch: db.rollback, then the exception goes to the caller
RootRollback(t) ==
    /\ tasks[t].pc = "rollback"
    /\ tasks' = [tasks EXCEPT ![t].pc = "done"]
    /\ UNCHANGED <<files, next_id, disk, operations, last, _lock, directories>>

NextRoots ==
    \E t \in RootTasks :
        \/ RootCall(t)
        \/ RootQuery(t)
        \/ RootCommit(t)
        \/ RootRollback(t)

SpecRoots == InitRoots /\ [][NextRoots]_vars

\* C27: after any number of get-or-create-root calls for one owner,
\* sequential or interleaved at their persistence calls, exactly one root
\* node with path "/" exists for that owner and every call returns that
\* node
C27_OneRootPerOwner ==
    \A t \in RootTasks :
        tasks[t].pc = "done"
        => /\ tasks[t].err = "none"
           /\ Cardinality(RootsOf(tasks[t].user)) = 1
           /\ \E d \in RootsOf(tasks[t].user) : d.id = tasks[t].ret

(***************************************************************************)
(* FileService.get_file_by_name                                            *)
(***************************************************************************)
\* the rows select(File).where(original_name == filename,
\* owner_id == user.id) finds, in whatever directory
NamedFiles(st, user, filename) ==
    {f \in st.files : f.original_name = filename /\ f.owner_id = user}

\* FileService.get_file_by_name: scalar_one_or_none gives the row, None
\* when there is none, and raises when there are several
get_file_by_name(st, user, filename) ==
    IF Cardinality(NamedFiles(st, user, filename)) > 1
    THEN Result(st, "MultipleResultsFound", None)
    ELSE IF NamedFiles(st, user, filename) = {}
    THEN Result(st, "none", None)
    ELSE Result(st, "none", CHOOSE f \in NamedFiles(st, user, filename) : TRUE)

\* the names looked up: those the creates use
LookupNames == {in.filename : in \in CreateInputs}

GetByName ==
    \E user \in Users, filename \in LookupNames :
        /\ CanCall
        /\ Returns("getByName", user, [filename |-> filename],
                   get_file_by_name(Store, user, filename))

NextLookup ==
    \/ Create
    \/ GetByName

SpecLookup == Init /\ [][NextLookup]_vars

\* C28: in every state reached by creates, also creates of one display
\* name in different directories of one owner, getByName returns no record
\* or exactly one record and never fails with an error
C28_LookupNeverFails ==
    last.op = "getByName" => last.err = "none"

(***************************************************************************)
(* The lock under failures of the audit log                                *)
(*                                                                         *)
(* The mutations of SpecTasks, with copy_from_shared, which calls          *)
(* create_file, and with log_operation raising on the success path and in  *)
(* the except branch.  The event loop runs every task that is ready, and   *)
(* asyncio.Lock wakes its waiters in turn: a task that can go on does.     *)
(***************************************************************************)
\* the files in the shared directory
shared_files == [n \in {<<"s">>} |-> hello]
SharedNames == {<<"s">>, <<"n">>}

GateCalls == {TaskCall("update", 1, [file_id |-> 1, new_content |-> bye])}

CallMutation(t) == \E c \in GateCalls : Start(t, c)

\* FileService.copy_from_shared: it raises when the shared file is
\* missing, and otherwise goes on into create_file without an await
CallCopy(t) ==
    \E shared_filename \in SharedNames :
        IF shared_filename \in DOMAIN shared_files
        THEN Start(t, TaskCall("create", 1,
                        CreateInput(1, shared_filename, shared_files[shared_filename],
                                    FALSE, NoId)))
        ELSE /\ NextIdle(t)
             /\ tasks' = [tasks EXCEPT ![t] =
                            [Idle EXCEPT !.op = "copy_from_shared", !.user = 1,
                                         !.pc = "done", !.err = "NotFound"]]
             /\ UNCHANGED <<files, next_id, disk, operations, last, _lock, directories>>

\* log_operation on the success path raises: its commit fails, it rolls
\* back and re-raises into the except branch of the method
LogFails(t) ==
    /\ tasks[t].pc = "log"
    /\ tasks' = [tasks EXCEPT ![t].pc = "except", ![t].err = "AuditFailed"]
    /\ UNCHANGED <<files, next_id, disk, operations, last, _lock, directories>>

\* log_operation in the except branch raises: no entry is stored and its
\* exception leaves the "async with"
ExceptFails(t) ==
    /\ tasks[t].pc = "except"
    /\ tasks' = [tasks EXCEPT ![t].pc = "done", ![t].ret = {},
                              ![t].returned_under = _lock]
    /\ _lock' = Released(t)
    /\ UNCHANGED <<files, next_id, disk, operations, last, directories>>

\* task t goes on from where it is suspended
Proceeds(t) == Resume(t) \/ LogFails(t) \/ ExceptFails(t)

NextGate ==
    \E t \in Tasks :
        \/ CallMutation(t)
        \/ CallCopy(t)
        \/ Enter(t)
        \/ Query(t)
        \/ Commit(t)
        \/ Log(t)
        \/ Except(t)
        \/ LogFails(t)
        \/ ExceptFails(t)

\* where each task is in its method; every step of Proceeds changes it
Positions == [t \in Tasks |-> tasks[t].pc]

SpecGate ==
    /\ InitTasks
    /\ [][NextGate]_vars
    /\ \A t \in Tasks : WF_Positions(Proceeds(t))

\* task t has asked for the lock and does not have it
Waiting(t) ==
    tasks[t].pc = "start" /\ tasks[t].op \in {"create", "update", "delete"}

NextFormat == Create \/ Update

SpecFormat == Init /\ [][NextFormat]_vars

\* the name makes create_file validate the content
Structured(filename) ==
    \/ EndsWith(Lower(filename), json_suffix)
    \/ EndsWith(Lower(filename), xml_suffix)

\* C30: in every state reached by create and update calls, the bytes
\* stored for an unencrypted record whose name ends in .json or .xml pass
\* the validation create_file applies
C30_StructuredFilesWellFormed ==
    \A f \in files :
        (Structured(f.original_name) /\ ~f.is_encrypted /\ f.storage_path \in DOMAIN disk)
            => validate_file_format(f.original_name, disk[f.storage_path])

====
